---- MODULE Spec2Model ----
(***************************************************************************)
(* Fragment manager of the backend (be/src/runtime/fragment_mgr.cpp):      *)
(* the registry of live fragment instances and query contexts, the submit  *)
(* entry points, the worker task (_exec_actual), cancellation and the      *)
(* timeout sweep (cancel_worker).                                          *)
(*                                                                         *)
(* Every critical section of FragmentMgr::_lock is one action; code that   *)
(* runs between two critical sections is an action of its own, so that     *)
(* threads interleave exactly where the mutex is not held.                 *)
(***************************************************************************)
EXTENDS Integers, Sequences, FiniteSets, TLC

\* ---- bounds of the model ----
NReq == 2        \* submit calls (RPC handler invocations)
NInst == 3       \* distinct fragment instance ids
NQuery == 2      \* distinct query ids
MaxTime == 2     \* the clock runs 0..MaxTime (seconds)
MaxCancelRpc == 2 \* cancel RPCs the coordinator issues
\* MemInfo::mem_limit(), the memory limit of the process, and a limit a
\* query may ask for that lies above it (in GB)
ProcessMemLimit == 4
LargeMemLimit == 10
MaxReports == 2  \* calls of the report callback
MaxRowUnits == 5        \* rows of a row group, in units of 2^29 rows
MaxSkips == 2           \* skipped row ranges of one row group
IntRange == 8           \* values of a 32-bit int, in units of 2^29
MaxGroups == 3          \* row groups of a parquet file
GroupBytes == 4         \* bytes of the column chunks of one row group
ExampleRows == 100      \* rows of a row group in the scenario of three groups
BatchRows == 64         \* rows one call of RowGroupReader::next_batch reads at most
MaxTablets == 2         \* scan ranges (tablets) of a scan node
MaxRowsets == 2         \* rowsets of a tablet
MaxSegs == 3            \* segments of a tablet
MaxThreads == 3         \* config::doris_scanner_thread_pool_thread_num
MaxRanges == 4          \* condition ranges of the scan keys
MaxFootprint == 4       \* Tablet::tablet_footprint, in MB
MaxScanRangeMb == 2     \* config::doris_scan_range_max_mb
MaxLines == 3           \* lines of a CSV file from the reader's offset
MaxStartOffset == 2     \* start_offset of a CSV scan range
RangeBytes == 8         \* size of a CSV scan range
MaxLocal == 3    \* local instances of one TPipelineFragmentParams request
MaxCuts == 2     \* cuts that divide a parquet file into scan ranges
MaxGroupBytes == 3 \* bytes of a row group of a divided file
MaxDeletes == 3  \* entries of a position-delete list
MaxGroupRows == 2 \* rows of a row group of a file with position deletes
MaxColumnRows == 3 \* rows of the column a predicate is evaluated on
MaxScannersPerTablet == 64  \* the scanners of one node, shared among its tablets

Reqs == 1..NReq
Insts == 1..NInst
Queries == 1..NQuery
\* one FragmentExecState / PipelineFragmentContext per submit call
Objs == 1..NReq
\* one QueryFragmentsCtx object per submit call at most
Ctxs == 1..NReq

\* the query a fragment instance id belongs to
QueryOf(i) == ((i - 1) % NQuery) + 1

\* fragment_num_on_host: the coordinator declares, with every request of a
\* query, how many fragment instances of that query it places on this host
FragNumOnHost(q) == Cardinality({i \in Insts : QueryOf(i) = q})

\* execution_timeout values a request may carry (seconds; <= 0 disables)
TimeoutChoices == {0, 1}

CancelReasons == {"USER_CANCEL", "LIMIT_REACH", "TIMEOUT", "INTERNAL_ERROR"}

Threads == ({"req"} \X Reqs) \cup ({"task"} \X Objs)
           \cup {<<"sweep", 0>>, <<"rpc", 0>>, <<"dtor", 0>>}
ReqT(r) == <<"req", r>>
TaskT(o) == <<"task", o>>
SweepT == <<"sweep", 0>>
RpcT == <<"rpc", 0>>
DtorT == <<"dtor", 0>>   \* the thread that destroys the manager

VARIABLES
    now,                \* VecDateTimeValue::local_time(), in seconds
    fragment_map,       \* FragmentMgr::_fragment_map : instance id -> exec state (0 = absent)
    pipeline_map,       \* FragmentMgr::_pipeline_map : instance id -> pipeline context (0 = absent)
    fragments_ctx_map,  \* FragmentMgr::_fragments_ctx_map : query id -> context (0 = absent)
    ctx,                \* the QueryFragmentsCtx objects
    ex,                 \* the FragmentExecState / PipelineFragmentContext objects
    req,                \* the submit calls: parameters and locals
    pc,                 \* position of every thread
    frame,              \* per thread: the FragmentMgr::cancel / FragmentExecState::cancel call in progress
    rpc_left,           \* cancel RPCs still to come
    api,                \* the query-level call an RPC handler is in, and its result
    rpt,                \* the status report the reporting thread is sending
    pidx,               \* ParquetReader::_process_page_index : one call, its inputs and its output
    pq,                 \* the ParquetReader object : row groups of the file, queue, group reader
    scan,               \* NewOlapScanNode::_init_scanners : one call, its inputs and its output
    csv,                \* the CsvReader object : its range, init_reader and the lines it reads
    anp,                \* AcceptNullPredicate : one evaluation, its column, flags and result
    pfp                 \* one call of exec_plan_fragment(TPipelineFragmentParams) : its local instances

vars == <<now, fragment_map, pipeline_map, fragments_ctx_map, ctx, ex, req, pc, frame, rpc_left,
          api, rpt, pidx, pq, scan, csv, anp, pfp>>

\* the state of the fragment manager, and the state of the other components
fmVars == <<now, fragment_map, pipeline_map, fragments_ctx_map, ctx, ex, req, pc, frame, rpc_left,
            api, rpt>>
otherVars == <<pidx, pq, scan, csv, anp, pfp>>

NoCtx == [exists |-> FALSE, query_id |-> 0, fragment_num |-> 0, fragment_ids |-> <<>>,
          timeout_second |-> 0, start_time |-> 0, ready |-> FALSE, bytes_limit |-> -1]

NoEx == [kind |-> "none", inst |-> 0, ctx |-> 0, cancelled |-> FALSE, timeout_second |-> -1,
         start_time |-> 0, need_wait |-> FALSE, exec_cancels |-> 0, reason |-> "NONE",
         report_on_cancel |-> TRUE, opened |-> FALSE, reported |-> FALSE, all_done |-> FALSE,
         exec_status |-> "OK"]

NoReq == [inst |-> 0, entry |-> "none", simplified |-> FALSE, need_wait |-> FALSE,
          has_opts |-> FALSE, timeout |-> 0, fault |-> "none", ctx |-> 0, ret |-> "NONE",
          isset_mem_limit |-> FALSE, mem_limit |-> 0]

NoFrame == [todo |-> <<>>, tgt |-> 0, reason |-> "NONE", ret |-> "idle"]

NoApi == [op |-> "none", query |-> 0, reason |-> "NONE", ids |-> <<>>, result |-> "NONE",
          start |-> [q \in Queries |-> "NONE"]]

\* the executor's reporting thread: its position in coordinator_callback, the
\* exec state and the request it reports (status, done), the locals
\* exec_status and rpc_status, what happened in this call (calls of
\* reportExecStatus, of reopen, of cancel_fn, how the last attempt ended,
\* how the call ended), and the calls still to come
NoRpt == [pc |-> "idle", obj |-> 0, status |-> "OK", done |-> FALSE, exec_status |-> "OK",
          rpc_status |-> "OK", attempts |-> 0, reopens |-> 0, cancels |-> 0,
          last |-> "none", outcome |-> "none", left |-> MaxReports]

NoPidx == [pc |-> "off"]
NoPq == [pc |-> "off"]
NoScan == [pc |-> "off"]
NoCsv == [pc |-> "off"]
NoAnp == [pc |-> "off"]
NoPfp == [pc |-> "off"]

InitFragmentMgr ==
    /\ now = 0
    /\ fragment_map = [i \in Insts |-> 0]
    /\ pipeline_map = [i \in Insts |-> 0]
    /\ fragments_ctx_map = [q \in Queries |-> 0]
    /\ ctx = [c \in Ctxs |-> NoCtx]
    /\ ex = [o \in Objs |-> NoEx]
    /\ req = [r \in Reqs |-> NoReq]
    /\ pc = [t \in Threads |-> IF t = SweepT THEN "scan" ELSE "idle"]
    /\ frame = [t \in Threads |-> NoFrame]
    /\ rpc_left = MaxCancelRpc
    /\ api = NoApi
    /\ rpt = NoRpt

Init ==
    /\ InitFragmentMgr
    /\ pidx = NoPidx
    /\ pq = NoPq
    /\ scan = NoScan
    /\ csv = NoCsv
    /\ anp = NoAnp
    /\ pfp = NoPfp

\* ---------------------------------------------------------------------
\* QueryFragmentsCtx (runtime/query_fragments_ctx.h)
\* ---------------------------------------------------------------------

\* QueryFragmentsCtx(total_fragment_num, exec_env): the countdown starts at
\* the number of fragments the coordinator declares for this host; the
\* caller then fills query_id and timeout_second (fragment_mgr.cpp 606-624).
NewQueryFragmentsCtx(total_fragment_num, query_id, timeout_second, t) ==
    [exists |-> TRUE, query_id |-> query_id, fragment_num |-> total_fragment_num,
     fragment_ids |-> <<>>, timeout_second |-> timeout_second, start_time |-> t,
     ready |-> FALSE, bytes_limit |-> -1]

\* QueryFragmentsCtx::countdown(): fetch_sub(1) == 1
CountdownAllDone(c) == ctx[c].fragment_num = 1
CountdownNum(c) == ctx[c].fragment_num - 1

\* QueryFragmentsCtx::is_timeout(now)
CtxIsTimeout(c, t) ==
    /\ ctx[c].timeout_second > 0
    /\ t - ctx[c].start_time > ctx[c].timeout_second

\* ---------------------------------------------------------------------
\* FragmentExecState
\* ---------------------------------------------------------------------

\* FragmentExecState::is_timeout(now)
IsTimeout(e, t) ==
    IF e.timeout_second <= 0 THEN FALSE
    ELSE IF t - e.start_time > e.timeout_second THEN TRUE
    ELSE FALSE

\* FragmentExecState::FragmentExecState(...): _timeout_second(-1), _start_time = local_time()
NewFragmentExecState(inst, c, need_wait, t) ==
    [NoEx EXCEPT !.kind = "legacy", !.inst = inst, !.ctx = c, !.need_wait = need_wait,
                 !.start_time = t]

\* FragmentExecState::prepare(params): the timeout is taken only when the
\* request carries query options
PreparedTimeout(r) ==
    IF req[r].has_opts THEN req[r].timeout ELSE ex[r].timeout_second

\* the body of FragmentExecState::cancel once _cancelled was read as false
CancelBody(e, reason) ==
    [e EXCEPT !.report_on_cancel = IF reason = "LIMIT_REACH" THEN FALSE ELSE @,
              !.exec_cancels = @ + 1,
              !.reason = IF e.exec_cancels = 0 THEN reason ELSE @,
              !.cancelled = TRUE]

\* PlanFragmentExecutor: the final report (done = true) is sent unless the
\* executor was cancelled with report-on-cancel switched off
SendsFinalReport(e) == ~(e.exec_cancels > 0 /\ ~e.report_on_cancel)

\* PlanFragmentExecutor::cancel(reason, msg)
ExecutorCancel(e, reason) ==
    [e EXCEPT !.exec_cancels = @ + 1,
              !.reason = IF e.exec_cancels = 0 THEN reason ELSE @]

\* a slip in update_status: the stored status is overwritten
UpdateStatusOverwrite(exec_status, status) == status

\* FragmentExecState::update_status: the status stored after the call, which
\* is also the status returned
UpdateStatus(exec_status, status) ==
    IF status # "OK" /\ exec_status = "OK" THEN status ELSE exec_status

\* PipelineFragmentContext::cancel(reason, msg)
PipelineCancel(e, reason) ==
    IF e.cancelled THEN e
    ELSE [e EXCEPT !.cancelled = TRUE, !.reason = reason, !.exec_cancels = @ + 1]

\* ---------------------------------------------------------------------
\* helpers
\* ---------------------------------------------------------------------
Min(S) == CHOOSE x \in S : \A y \in S : x <= y

RECURSIVE SortedSeq(_)
SortedSeq(S) == IF S = {} THEN <<>> ELSE <<Min(S)>> \o SortedSeq(S \ {Min(S)})

Home(t) == IF t = SweepT THEN "sleep"
           ELSE IF t = RpcT /\ api.op = "cancel_query" THEN "cq_return"
           ELSE "idle"

\* std::map::insert: keeps the entry that is already there
MapInsert(m, k, v) == IF m[k] = 0 THEN [m EXCEPT ![k] = v] ELSE m

MapErase(m, k) == [m EXCEPT ![k] = 0]

\* ---------------------------------------------------------------------
\* FragmentMgr::exec_plan_fragment : the submit entry points
\* ---------------------------------------------------------------------

\* a request arrives: TExecPlanFragmentParams ("legacy": pipeline engine off,
\* "pipe_opt": enable_pipeline_engine set) or TPipelineFragmentParams
\* ("pipe_params")
Entries == {"legacy", "pipe_opt", "pipe_params"}

\* the step of a request that fails, if any: DescriptorTbl::create, prepare,
\* the hand-over to the thread pool or to the pipeline scheduler, or
\* _executor.open()
Faults == {"none", "desc_tbl", "prepare", "submit", "open"}

\* the requests the coordinator may send
Params == [inst : Insts, entry : Entries, simplified : BOOLEAN, need_wait : BOOLEAN,
           has_opts : BOOLEAN, timeout : TimeoutChoices, fault : Faults]

\* submit call r starts with a request out of P
SubmitFrom(r, P) ==
    /\ pc[ReqT(r)] = "idle"
    /\ r > 1 => pc[ReqT(r - 1)] # "idle"
    /\ \E p \in P :
          /\ req' = [req EXCEPT ![r] = [NoReq EXCEPT !.inst = p.inst, !.entry = p.entry,
                                                     !.simplified = p.simplified,
                                                     !.need_wait = p.need_wait,
                                                     !.has_opts = p.has_opts,
                                                     !.timeout = p.timeout,
                                                     !.fault = p.fault]]
          /\ pc' = [pc EXCEPT ![ReqT(r)] = IF p.entry = "pipe_params" THEN "getctx"
                                           ELSE "check"]
    /\ UNCHANGED <<now, fragment_map, pipeline_map, fragments_ctx_map, ctx, ex, frame, rpc_left, api, rpt>>
    /\ UNCHANGED otherVars

SubmitStart(r) == SubmitFrom(r, Params)

\* exec_plan_fragment(TExecPlanFragmentParams): the duplicate check, under _lock
CheckDuplicate(r) ==
    /\ pc[ReqT(r)] = "check"
    /\ IF fragment_map[req[r].inst] # 0
       THEN /\ req' = [req EXCEPT ![r].ret = "OK"]
            /\ pc' = [pc EXCEPT ![ReqT(r)] = "done"]
       ELSE /\ pc' = [pc EXCEPT ![ReqT(r)] = "getctx"]
            /\ UNCHANGED req
    /\ UNCHANGED <<now, fragment_map, pipeline_map, fragments_ctx_map, ctx, ex, frame, rpc_left, api, rpt>>
    /\ UNCHANGED otherVars

\* a slip in _get_query_ctx: every request is taken for a full one
IsSimplifiedNever(r) == FALSE

\* params.is_simplified_param
IsSimplifiedParam(r) == req[r].simplified

\* a slip in _get_query_ctx: the registry is not looked up again
AlreadyRegisteredNever(q) == FALSE

\* the second lookup of _fragments_ctx_map, under _lock
AlreadyRegistered(q) == fragments_ctx_map[q] # 0

\* a slip in _get_query_ctx: the requested limit is not clamped
BytesLimitUnclamped(isset_mem_limit, mem_limit) ==
    IF isset_mem_limit /\ mem_limit > 0 THEN mem_limit ELSE -1

\* the byte limit of the query memory tracker
BytesLimit(isset_mem_limit, mem_limit) ==
    LET has_query_mem_tracker == isset_mem_limit /\ mem_limit > 0
        bytes_limit == IF has_query_mem_tracker THEN mem_limit ELSE -1
    IN IF bytes_limit > ProcessMemLimit THEN ProcessMemLimit ELSE bytes_limit

\* _get_query_ctx
GetQueryCtx(r) ==
    /\ pc[ReqT(r)] = "getctx"
    /\ LET q == QueryOf(req[r].inst)
           nextpc == IF req[r].entry = "pipe_params" THEN "pcheck" ELSE "push"
       IN IF IsSimplifiedParam(r)
          THEN IF fragments_ctx_map[q] = 0
               THEN /\ req' = [req EXCEPT ![r].ret = "ERR_CTX_NOT_FOUND"]
                    /\ pc' = [pc EXCEPT ![ReqT(r)] = "done"]
                    /\ UNCHANGED <<ctx, fragments_ctx_map>>
               ELSE /\ req' = [req EXCEPT ![r].ctx = fragments_ctx_map[q]]
                    /\ pc' = [pc EXCEPT ![ReqT(r)] = nextpc]
                    /\ UNCHANGED <<ctx, fragments_ctx_map>>
          ELSE IF req[r].fault = "desc_tbl"
               THEN \* DescriptorTbl::create fails
                  /\ req' = [req EXCEPT ![r].ret = "ERR_DESC_TBL"]
                  /\ pc' = [pc EXCEPT ![ReqT(r)] = "done"]
                  /\ UNCHANGED <<ctx, fragments_ctx_map>>
               ELSE \* the context is built, then the registry is looked up again
                  \* under _lock: the built context is dropped when another
                  \* request has registered one meanwhile
                  /\ IF ~AlreadyRegistered(q)
                     THEN /\ ctx' = [ctx EXCEPT ![r] =
                                       [NewQueryFragmentsCtx(FragNumOnHost(q), q,
                                                             req[r].timeout, now)
                                          EXCEPT !.bytes_limit =
                                             BytesLimit(req[r].isset_mem_limit,
                                                        req[r].mem_limit)]]
                          /\ fragments_ctx_map' = [fragments_ctx_map EXCEPT ![q] = r]
                          /\ req' = [req EXCEPT ![r].ctx = r]
                     ELSE /\ req' = [req EXCEPT ![r].ctx = fragments_ctx_map[q]]
                          /\ UNCHANGED <<ctx, fragments_ctx_map>>
                  /\ pc' = [pc EXCEPT ![ReqT(r)] = nextpc]
    /\ UNCHANGED <<now, fragment_map, pipeline_map, ex, frame, rpc_left, api, rpt>>
    /\ UNCHANGED otherVars

\* exec_plan_fragment(TPipelineFragmentParams): the duplicate check of the
\* local instance, under _lock; a duplicate is skipped and the loop ends
PipelineCheckDuplicate(r) ==
    /\ pc[ReqT(r)] = "pcheck"
    /\ IF pipeline_map[req[r].inst] # 0
       THEN /\ req' = [req EXCEPT ![r].ret = "OK"]
            /\ pc' = [pc EXCEPT ![ReqT(r)] = "done"]
       ELSE /\ pc' = [pc EXCEPT ![ReqT(r)] = "push"]
            /\ UNCHANGED req
    /\ UNCHANGED <<now, fragment_map, pipeline_map, fragments_ctx_map, ctx, ex, frame, rpc_left, api, rpt>>
    /\ UNCHANGED otherVars

\* fragments_ctx->fragment_ids.push_back(id), not under _lock, and the
\* construction of the FragmentExecState
PushFragmentId(r) ==
    /\ pc[ReqT(r)] = "push"
    /\ ctx' = [ctx EXCEPT ![req[r].ctx].fragment_ids = Append(@, req[r].inst)]
    /\ ex' = [ex EXCEPT ![r] = NewFragmentExecState(req[r].inst, req[r].ctx,
                                                   req[r].need_wait, now)]
    /\ pc' = [pc EXCEPT ![ReqT(r)] = IF req[r].entry = "legacy" THEN "prepare" ELSE "pprepare"]
    /\ UNCHANGED <<now, fragment_map, pipeline_map, fragments_ctx_map, req, frame, rpc_left, api, rpt>>
    /\ UNCHANGED otherVars

\* a slip in the submit paths: the result of prepare is not looked at
PrepareFailsNever(r) == FALSE

\* prepare(params) of the exec state or of the pipeline context fails
PrepareFails(r) == req[r].fault = "prepare"

\* exec_state->prepare(params); RETURN_IF_ERROR
Prepare(r) ==
    /\ pc[ReqT(r)] = "prepare"
    /\ ex' = [ex EXCEPT ![r].timeout_second = PreparedTimeout(r)]
    /\ IF ~PrepareFails(r)
       THEN /\ pc' = [pc EXCEPT ![ReqT(r)] = "insert"]
            /\ UNCHANGED req
       ELSE /\ req' = [req EXCEPT ![r].ret = "ERR_PREPARE"]
            /\ pc' = [pc EXCEPT ![ReqT(r)] = "done"]
    /\ UNCHANGED <<now, fragment_map, pipeline_map, fragments_ctx_map, ctx, frame, rpc_left, api, rpt>>
    /\ UNCHANGED otherVars

\* _fragment_map.insert(...), under _lock
InsertFragment(r) ==
    /\ pc[ReqT(r)] = "insert"
    /\ fragment_map' = MapInsert(fragment_map, req[r].inst, r)
    /\ pc' = [pc EXCEPT ![ReqT(r)] = "poolsubmit"]
    /\ UNCHANGED <<now, pipeline_map, fragments_ctx_map, ctx, ex, req, frame, rpc_left, api, rpt>>
    /\ UNCHANGED otherVars

\* _thread_pool->submit_func(...): accepted, or rejected and the entry erased
\* again under _lock before exec_state->cancel(INTERNAL_ERROR)
PoolSubmit(r) ==
    /\ pc[ReqT(r)] = "poolsubmit"
    /\ IF req[r].fault # "submit"
       THEN /\ pc' = [pc EXCEPT ![ReqT(r)] = "done", ![TaskT(r)] = "queued"]
            /\ req' = [req EXCEPT ![r].ret = "OK"]
            /\ UNCHANGED <<fragment_map, frame>>
       ELSE /\ fragment_map' = MapErase(fragment_map, req[r].inst)
            /\ req' = [req EXCEPT ![r].ret = "ERR_POOL"]
            /\ frame' = [frame EXCEPT ![ReqT(r)] = [todo |-> <<>>, tgt |-> r,
                                                    reason |-> "INTERNAL_ERROR", ret |-> "done"]]
            /\ pc' = [pc EXCEPT ![ReqT(r)] = "cancel_check"]
    /\ UNCHANGED <<now, pipeline_map, fragments_ctx_map, ctx, ex, rpc_left, api, rpt>>
    /\ UNCHANGED otherVars

\* the pipeline branch: set_ready_to_execute_only() unless the request waits
\* for the start trigger, then PipelineFragmentContext::prepare
PipelinePrepare(r) ==
    /\ pc[ReqT(r)] = "pprepare"
    /\ ctx' = [ctx EXCEPT ![req[r].ctx].ready = IF req[r].need_wait THEN @ ELSE TRUE]
    /\ IF ~PrepareFails(r)
       THEN /\ ex' = [ex EXCEPT ![r].kind = "pipeline"]
            /\ pc' = [pc EXCEPT ![ReqT(r)] = "pinsert"]
            /\ UNCHANGED req
       ELSE \* prepare failed: context->close_if_prepare_failed()
            /\ ex' = [ex EXCEPT ![r].kind = "closed"]
            /\ req' = [req EXCEPT ![r].ret = "ERR_PREPARE"]
            /\ pc' = [pc EXCEPT ![ReqT(r)] = "done"]
    /\ UNCHANGED <<now, fragment_map, pipeline_map, fragments_ctx_map, frame, rpc_left, api, rpt>>
    /\ UNCHANGED otherVars

\* _pipeline_map.insert(...), under _lock
PipelineInsert(r) ==
    /\ pc[ReqT(r)] = "pinsert"
    /\ pipeline_map' = MapInsert(pipeline_map, req[r].inst, r)
    /\ pc' = [pc EXCEPT ![ReqT(r)] = "psubmit"]
    /\ UNCHANGED <<now, fragment_map, fragments_ctx_map, ctx, ex, req, frame, rpc_left, api, rpt>>
    /\ UNCHANGED otherVars

\* context->submit()
PipelineSubmit(r) ==
    /\ pc[ReqT(r)] = "psubmit"
    /\ IF req[r].fault # "submit"
       THEN /\ pc' = [pc EXCEPT ![ReqT(r)] = "done", ![TaskT(r)] = "prunning"]
            /\ req' = [req EXCEPT ![r].ret = "OK"]
       ELSE /\ pc' = [pc EXCEPT ![ReqT(r)] = "done"]
            /\ req' = [req EXCEPT ![r].ret = "ERR_SUBMIT"]
    /\ UNCHANGED <<now, fragment_map, pipeline_map, fragments_ctx_map, ctx, ex, frame, rpc_left, api, rpt>>
    /\ UNCHANGED otherVars

\* ---------------------------------------------------------------------
\* FragmentMgr::_exec_actual : the worker task of a legacy fragment
\* ---------------------------------------------------------------------

\* FragmentExecState::execute(): with need_wait_execution_trigger the task
\* blocks in wait_for_start() until the gate is signalled or the wait times
\* out; on a timeout execute() returns the result of cancel(INTERNAL_ERROR)
ExecuteWait(o) ==
    /\ pc[TaskT(o)] = "queued"
    /\ IF ~ex[o].need_wait \/ ctx[ex[o].ctx].ready
       THEN /\ pc' = [pc EXCEPT ![TaskT(o)] = "check_cancelled"]
            /\ UNCHANGED frame
       ELSE /\ frame' = [frame EXCEPT ![TaskT(o)] = [todo |-> <<>>, tgt |-> o,
                                                    reason |-> "INTERNAL_ERROR",
                                                    ret |-> "countdown"]]
            /\ pc' = [pc EXCEPT ![TaskT(o)] = "cancel_check"]
    /\ UNCHANGED <<now, fragment_map, pipeline_map, fragments_ctx_map, ctx, ex, req, rpc_left, api, rpt>>
    /\ UNCHANGED otherVars

\* execute(): runtime_state()->is_cancelled() gives Status::Cancelled, and
\* _exec_actual then calls exec_state->cancel(INTERNAL_ERROR)
ExecuteCheckCancelled(o) ==
    /\ pc[TaskT(o)] = "check_cancelled"
    /\ IF ex[o].exec_cancels > 0
       THEN /\ frame' = [frame EXCEPT ![TaskT(o)] = [todo |-> <<>>, tgt |-> o,
                                                    reason |-> "INTERNAL_ERROR",
                                                    ret |-> "countdown"]]
            /\ pc' = [pc EXCEPT ![TaskT(o)] = "cancel_check"]
       ELSE /\ pc' = [pc EXCEPT ![TaskT(o)] = "open"]
            /\ UNCHANGED frame
    /\ UNCHANGED <<now, fragment_map, pipeline_map, fragments_ctx_map, ctx, ex, req, rpc_left, api, rpt>>
    /\ UNCHANGED otherVars

\* execute(): _executor.open() runs the plan to its end and reports; when it
\* fails the state is cancelled with INTERNAL_ERROR; _executor.close()
ExecuteOpen(o) ==
    /\ pc[TaskT(o)] = "open"
    /\ ex' = [ex EXCEPT ![o].opened = TRUE, ![o].reported = SendsFinalReport(ex[o])]
    /\ IF req[o].fault # "open"
       THEN /\ pc' = [pc EXCEPT ![TaskT(o)] = "countdown"]
            /\ UNCHANGED frame
       ELSE /\ frame' = [frame EXCEPT ![TaskT(o)] = [todo |-> <<>>, tgt |-> o,
                                                    reason |-> "INTERNAL_ERROR",
                                                    ret |-> "countdown"]]
            /\ pc' = [pc EXCEPT ![TaskT(o)] = "cancel_check"]
    /\ UNCHANGED <<now, fragment_map, pipeline_map, fragments_ctx_map, ctx, req, rpc_left, api, rpt>>
    /\ UNCHANGED otherVars

\* _exec_actual: all_done = fragments_ctx->countdown(), _lock not held
ExecActualCountdown(o) ==
    /\ pc[TaskT(o)] = "countdown"
    /\ ex' = [ex EXCEPT ![o].all_done = CountdownAllDone(ex[o].ctx)]
    /\ ctx' = [ctx EXCEPT ![ex[o].ctx].fragment_num = CountdownNum(ex[o].ctx)]
    /\ pc' = [pc EXCEPT ![TaskT(o)] = "erase"]
    /\ UNCHANGED <<now, fragment_map, pipeline_map, fragments_ctx_map, req, frame, rpc_left, api, rpt>>
    /\ UNCHANGED otherVars

\* a slip in _exec_actual: the context is erased without testing all_done
ExecActualCtxMapAlways(o) == MapErase(fragments_ctx_map, ctx[ex[o].ctx].query_id)

\* the registry after _exec_actual's critical section
ExecActualCtxMap(o) ==
    IF ex[o].all_done THEN MapErase(fragments_ctx_map, ctx[ex[o].ctx].query_id)
    ELSE fragments_ctx_map

\* _exec_actual: under _lock, erase the instance and, when all_done, the
\* context registered under the query id; then the finish callback
ExecActualErase(o) ==
    /\ pc[TaskT(o)] = "erase"
    /\ fragment_map' = MapErase(fragment_map, ex[o].inst)
    /\ fragments_ctx_map' = ExecActualCtxMap(o)
    /\ pc' = [pc EXCEPT ![TaskT(o)] = "finished"]
    /\ UNCHANGED <<now, pipeline_map, ctx, ex, req, frame, rpc_left, api, rpt>>
    /\ UNCHANGED otherVars

\* the registry after remove_pipeline_context
RemovePipelineCtxMap(o) ==
    IF CountdownAllDone(ex[o].ctx) THEN MapErase(fragments_ctx_map, ctx[ex[o].ctx].query_id)
    ELSE fragments_ctx_map

\* FragmentMgr::remove_pipeline_context, called when a pipeline fragment
\* context has finished: countdown and both erasures under _lock
RemovePipelineContext(o) ==
    /\ pc[TaskT(o)] = "prunning"
    /\ ex' = [ex EXCEPT ![o].all_done = CountdownAllDone(ex[o].ctx),
                        ![o].reported = SendsFinalReport(ex[o])]
    /\ ctx' = [ctx EXCEPT ![ex[o].ctx].fragment_num = CountdownNum(ex[o].ctx)]
    /\ pipeline_map' = MapErase(pipeline_map, ex[o].inst)
    /\ fragments_ctx_map' = RemovePipelineCtxMap(o)
    /\ pc' = [pc EXCEPT ![TaskT(o)] = "finished"]
    /\ UNCHANGED <<now, fragment_map, req, frame, rpc_left, api, rpt>>
    /\ UNCHANGED otherVars

\* ---------------------------------------------------------------------
\* cancellation
\* ---------------------------------------------------------------------

\* the coordinator's cancel RPC: FragmentMgr::cancel(fragment_id, reason, msg)
RpcCancel ==
    /\ pc[RpcT] = "idle"
    /\ rpc_left > 0
    /\ \E i \in Insts, rs \in {"USER_CANCEL", "LIMIT_REACH"} :
          /\ fragment_map[i] # 0 \/ pipeline_map[i] # 0 \/ i = 1
          /\ frame' = [frame EXCEPT ![RpcT] = [todo |-> <<i>>, tgt |-> 0, reason |-> rs,
                                               ret |-> "idle"]]
    /\ pc' = [pc EXCEPT ![RpcT] = "lookup"]
    /\ rpc_left' = rpc_left - 1
    /\ api' = [NoApi EXCEPT !.op = "cancel", !.start = api.start]
    /\ UNCHANGED <<now, fragment_map, pipeline_map, fragments_ctx_map, ctx, ex, req, rpt>>
    /\ UNCHANGED otherVars

\* where a thread inside FragmentMgr::cancel goes after the current id
AfterCancel(t) == IF Tail(frame[t].todo) = <<>> THEN Home(t) ELSE "lookup"

\* FragmentMgr::cancel: look the id up in _fragment_map, under _lock
CancelLookup(t) ==
    /\ pc[t] = "lookup"
    /\ LET id == Head(frame[t].todo)
       IN IF fragment_map[id] # 0
          THEN /\ frame' = [frame EXCEPT ![t].tgt = fragment_map[id],
                                         ![t].todo = Tail(@),
                                         ![t].ret = AfterCancel(t)]
               /\ pc' = [pc EXCEPT ![t] = "cancel_check"]
          ELSE /\ pc' = [pc EXCEPT ![t] = "lookup_p"]
               /\ UNCHANGED frame
    /\ UNCHANGED <<now, fragment_map, pipeline_map, fragments_ctx_map, ctx, ex, req, rpc_left, api, rpt>>
    /\ UNCHANGED otherVars

\* FragmentMgr::cancel: look the id up in _pipeline_map, under _lock, and
\* cancel the pipeline context; an unknown id is a no-op
CancelLookupPipeline(t) ==
    /\ pc[t] = "lookup_p"
    /\ LET id == Head(frame[t].todo)
           o == pipeline_map[id]
       IN /\ ex' = IF o # 0 THEN [ex EXCEPT ![o] = PipelineCancel(ex[o], frame[t].reason)]
                   ELSE ex
          /\ frame' = IF Tail(frame[t].todo) = <<>> THEN [frame EXCEPT ![t] = NoFrame]
                      ELSE [frame EXCEPT ![t].todo = Tail(@)]
          /\ pc' = [pc EXCEPT ![t] = AfterCancel(t)]
    /\ UNCHANGED <<now, fragment_map, pipeline_map, fragments_ctx_map, ctx, req, rpc_left, api, rpt>>
    /\ UNCHANGED otherVars

\* the call frame of thread t once FragmentExecState::cancel has returned
Returned(t) ==
    IF frame[t].ret = "lookup" THEN [frame EXCEPT ![t].tgt = 0]
    ELSE [frame EXCEPT ![t] = NoFrame]

\* FragmentExecState::cancel: if (!_cancelled)
CancelGuard(e) == ~e.cancelled

ExecStateCancelCheck(t) ==
    /\ pc[t] = "cancel_check"
    /\ IF CancelGuard(ex[frame[t].tgt])
       THEN /\ pc' = [pc EXCEPT ![t] = "cancel_act"]
            /\ UNCHANGED frame
       ELSE /\ pc' = [pc EXCEPT ![t] = frame[t].ret]
            /\ frame' = Returned(t)
    /\ UNCHANGED <<now, fragment_map, pipeline_map, fragments_ctx_map, ctx, ex, req, rpc_left, api, rpt>>
    /\ UNCHANGED otherVars

\* FragmentExecState::cancel: under _status_lock, _executor.cancel(reason, msg)
\* and _cancelled = true
ExecStateCancelAct(t) ==
    /\ pc[t] = "cancel_act"
    /\ ex' = [ex EXCEPT ![frame[t].tgt] = CancelBody(@, frame[t].reason)]
    /\ pc' = [pc EXCEPT ![t] = frame[t].ret]
    /\ frame' = Returned(t)
    /\ UNCHANGED <<now, fragment_map, pipeline_map, fragments_ctx_map, ctx, req, rpc_left, api, rpt>>
    /\ UNCHANGED otherVars

\* a slip in cancel_query: every instance id of the query is listed,
\* registered or not
CancelQueryIdsOfQuery(q) == SortedSeq({i \in Insts : QueryOf(i) = q})

\* cancel_query: the ids copied under _lock, those of the context registered
\* under the query id, none when there is no such context
CancelQueryIds(q) ==
    IF fragments_ctx_map[q] # 0 THEN ctx[fragments_ctx_map[q]].fragment_ids ELSE <<>>

\* FragmentMgr::cancel_query: under _lock, copy the fragment_ids; the ids are
\* then cancelled one by one through FragmentMgr::cancel
CancelQuery(q) ==
    /\ pc[RpcT] = "idle"
    /\ rpc_left > 0
    /\ \E rs \in {"USER_CANCEL", "LIMIT_REACH"} :
          LET cancel_fragment_ids == CancelQueryIds(q)
          IN /\ api' = [op |-> "cancel_query", query |-> q, reason |-> rs,
                        ids |-> cancel_fragment_ids, result |-> "NONE",
                        start |-> api.start]
             /\ frame' = [frame EXCEPT ![RpcT] = [todo |-> cancel_fragment_ids, tgt |-> 0,
                                                  reason |-> rs, ret |-> "cq_return"]]
             /\ pc' = [pc EXCEPT ![RpcT] = IF cancel_fragment_ids = <<>> THEN "cq_return"
                                           ELSE "lookup"]
    /\ rpc_left' = rpc_left - 1
    /\ UNCHANGED <<now, fragment_map, pipeline_map, fragments_ctx_map, ctx, ex, req, rpt>>
    /\ UNCHANGED otherVars

\* cancel_query returns
CancelQueryReturn ==
    /\ pc[RpcT] = "cq_return"
    /\ pc' = [pc EXCEPT ![RpcT] = "idle"]
    /\ api' = [api EXCEPT !.result = "returned"]
    /\ frame' = [frame EXCEPT ![RpcT] = NoFrame]
    /\ UNCHANGED <<now, fragment_map, pipeline_map, fragments_ctx_map, ctx, ex, req, rpc_left,
                   rpt>>
    /\ UNCHANGED otherVars

\* query_is_canceled, the loop over fragment_ids: the first id found in
\* _fragment_map or in _pipeline_map decides, and true when none is found
RECURSIVE FirstLiveIsCanceled(_)
FirstLiveIsCanceled(ids) ==
    IF ids = <<>> THEN TRUE
    ELSE IF fragment_map[Head(ids)] # 0 THEN ex[fragment_map[Head(ids)]].cancelled
    ELSE IF pipeline_map[Head(ids)] # 0 THEN ex[pipeline_map[Head(ids)]].cancelled
    ELSE FirstLiveIsCanceled(Tail(ids))

\* FragmentMgr::query_is_canceled(query_id), all of it under _lock
QueryIsCanceledResult(q) ==
    IF fragments_ctx_map[q] # 0
    THEN FirstLiveIsCanceled(ctx[fragments_ctx_map[q]].fragment_ids)
    ELSE TRUE

QueryIsCanceled(q) ==
    /\ api' = [NoApi EXCEPT !.op = "query_is_canceled", !.query = q, !.start = api.start,
                            !.result = IF QueryIsCanceledResult(q) THEN "true" ELSE "false"]
    /\ pc[RpcT] = "idle"
    /\ UNCHANGED <<now, fragment_map, pipeline_map, fragments_ctx_map, ctx, ex, req, pc, frame,
                   rpc_left, rpt>>
    /\ UNCHANGED otherVars

\* ---------------------------------------------------------------------
\* FragmentMgr::cancel_worker : the timeout sweep
\* ---------------------------------------------------------------------

\* the instances of _fragment_map the sweep finds timed out
SweepToCancel ==
    SortedSeq({i \in Insts : fragment_map[i] # 0 /\ IsTimeout(ex[fragment_map[i]], now)})

\* a slip in the eviction loop: contexts with a live instance are spared
SweepCtxMapIdleOnly ==
    [q \in Queries |->
        IF /\ fragments_ctx_map[q] # 0
           /\ CtxIsTimeout(fragments_ctx_map[q], now)
           /\ \A i \in Insts : fragment_map[i] # 0 => ex[fragment_map[i]].ctx # fragments_ctx_map[q]
        THEN 0 ELSE fragments_ctx_map[q]]

\* the query-context registry after the sweep's eviction loop
SweepCtxMap ==
    [q \in Queries |-> IF fragments_ctx_map[q] # 0 /\ CtxIsTimeout(fragments_ctx_map[q], now)
                       THEN 0 ELSE fragments_ctx_map[q]]

\* one pass of the loop body under _lock; the cancels follow outside it
SweepScan ==
    /\ pc[SweepT] = "scan"
    /\ fragments_ctx_map' = SweepCtxMap
    /\ frame' = IF SweepToCancel = <<>> THEN frame
                ELSE [frame EXCEPT ![SweepT] = [todo |-> SweepToCancel, tgt |-> 0,
                                                reason |-> "TIMEOUT", ret |-> "sleep"]]
    /\ pc' = [pc EXCEPT ![SweepT] = IF SweepToCancel = <<>> THEN "sleep" ELSE "lookup"]
    /\ UNCHANGED <<now, fragment_map, pipeline_map, ctx, ex, req, rpc_left, api, rpt>>
    /\ UNCHANGED otherVars

\* _stop_background_threads_latch has been counted down by the destructor
Stopped == pc[DtorT] # "idle"

\* the condition of the do-while loop of cancel_worker, after a wait of a second
LoopAgainAlways(stopped) == TRUE
LoopAgain(stopped) == ~stopped

\* _stop_background_threads_latch.wait_for(1s) returns false: next pass
SweepWake ==
    /\ pc[SweepT] = "sleep"
    /\ LoopAgain(Stopped)
    /\ pc' = [pc EXCEPT ![SweepT] = "scan"]
    /\ UNCHANGED <<now, fragment_map, pipeline_map, fragments_ctx_map, ctx, ex, req, frame,
                   rpc_left, api, rpt>>
    /\ UNCHANGED otherVars

\* a slip in start_query_execution: a query without a context is answered OK
StartResultAlwaysOk(q) == "OK"

\* what start_query_execution returns
StartResult(q) == IF fragments_ctx_map[q] = 0 THEN "ERR_CTX_NOT_FOUND" ELSE "OK"

\* FragmentMgr::start_query_execution, under _lock: the start trigger opens
\* the gate of the context registered under the query id; without one it
\* returns an error
StartQueryExecution(q) ==
    /\ IF fragments_ctx_map[q] = 0
       THEN UNCHANGED ctx
       ELSE ctx' = [ctx EXCEPT ![fragments_ctx_map[q]].ready = TRUE]
    /\ api' = [api EXCEPT !.start[q] = StartResult(q)]
    /\ UNCHANGED <<now, fragment_map, pipeline_map, fragments_ctx_map, ex, req, pc, frame,
                   rpc_left, rpt>>
    /\ UNCHANGED otherVars

\* a second passes
Tick ==
    /\ now < MaxTime
    /\ now' = now + 1
    /\ UNCHANGED <<fragment_map, pipeline_map, fragments_ctx_map, ctx, ex, req, pc, frame,
                   rpc_left, api, rpt>>
    /\ UNCHANGED otherVars

\* ---------------------------------------------------------------------
\* FragmentMgr::coordinator_callback, run by the reporting thread of an
\* executor while the executor is open (one call at a time)
\* ---------------------------------------------------------------------

\* the status an executor reports, the ways a reportExecStatus call ends
\* (the coordinator's answer, or an exception), and the statuses the callback
\* derives from a failure
ReportStatuses == {"OK", "EXEC_ERROR"}
RpcResults == {"OK", "COORD_ERROR", "transport", "exception"}

\* Status exec_status = req.update_fn(req.status); DCHECK(status.ok() || done)
CoordinatorCallback(o) ==
    /\ rpt.pc = "idle"
    /\ rpt.left > 0
    /\ ex[o].kind = "legacy"
    /\ pc[TaskT(o)] = "open"
    /\ ~(rpt.obj = o /\ rpt.done)
    /\ \E status \in ReportStatuses, done \in BOOLEAN :
          /\ status # "OK" => done
          /\ ex' = [ex EXCEPT ![o].exec_status = UpdateStatus(@, status)]
          /\ rpt' = [NoRpt EXCEPT !.pc = "client", !.obj = o, !.status = status,
                                  !.done = done,
                                  !.exec_status = UpdateStatus(ex[o].exec_status, status),
                                  !.left = rpt.left - 1]
    /\ UNCHANGED <<now, fragment_map, pipeline_map, fragments_ctx_map, ctx, req, pc, frame,
                   rpc_left, api>>
    /\ UNCHANGED otherVars

\* FrontendServiceConnection coord(...): without a client the failure is
\* merged into the status and the callback returns
ReportGetClient ==
    /\ rpt.pc = "client"
    /\ \E coord_ok \in BOOLEAN :
          IF coord_ok
          THEN /\ rpt' = [rpt EXCEPT !.pc = "attempt"]
               /\ UNCHANGED ex
          ELSE /\ ex' = [ex EXCEPT ![rpt.obj].exec_status = UpdateStatus(@, "INTERNAL_ERROR")]
               /\ rpt' = [rpt EXCEPT !.pc = "idle", !.outcome = "no_client"]
    /\ UNCHANGED <<now, fragment_map, pipeline_map, fragments_ctx_map, ctx, req, pc, frame,
                   rpc_left, api>>
    /\ UNCHANGED otherVars

\* a slip in the callback: every transport exception leads to a reconnect
AfterAttemptRetryAlways(n, res) == IF res = "transport" THEN "reopen" ELSE "check"

\* where the n-th reportExecStatus call leads: only the first one sits in the
\* inner try block, whose handler reconnects
AfterAttempt(n, res) == IF res = "transport" /\ n = 1 THEN "reopen" ELSE "check"

\* coord->reportExecStatus(res, params), the first or the second call
ReportExecStatus ==
    /\ rpt.pc = "attempt"
    /\ \E res \in RpcResults :
          rpt' = [rpt EXCEPT !.attempts = @ + 1,
                            !.last = res,
                            !.pc = AfterAttempt(rpt.attempts + 1, res),
                            !.rpc_status =
                               IF res \in {"OK", "COORD_ERROR"} THEN res
                               ELSE IF AfterAttempt(rpt.attempts + 1, res) = "reopen" THEN @
                               ELSE "INTERNAL_ERROR"]
    /\ UNCHANGED <<now, fragment_map, pipeline_map, fragments_ctx_map, ctx, ex, req, pc, frame,
                   rpc_left, api>>
    /\ UNCHANGED otherVars

\* rpc_status = coord.reopen(); on a failure update_fn, cancel_fn, return
ReportReopen ==
    /\ rpt.pc = "reopen"
    /\ \E reopen_ok \in BOOLEAN :
          IF reopen_ok
          THEN /\ rpt' = [rpt EXCEPT !.reopens = @ + 1, !.rpc_status = "OK", !.pc = "attempt"]
               /\ UNCHANGED ex
          ELSE /\ ex' = [ex EXCEPT ![rpt.obj] =
                            ExecutorCancel([@ EXCEPT !.exec_status =
                                                        UpdateStatus(@, "REOPEN_ERROR")],
                                           "INTERNAL_ERROR")]
               /\ rpt' = [rpt EXCEPT !.reopens = @ + 1, !.rpc_status = "REOPEN_ERROR",
                                     !.cancels = @ + 1, !.pc = "idle",
                                     !.outcome = "reopen_failed"]
    /\ UNCHANGED <<now, fragment_map, pipeline_map, fragments_ctx_map, ctx, req, pc, frame,
                   rpc_left, api>>
    /\ UNCHANGED otherVars

\* if (!rpc_status.ok()) { update_fn(rpc_status); cancel_fn(INTERNAL_ERROR) }
ReportCheck ==
    /\ rpt.pc = "check"
    /\ IF rpt.rpc_status # "OK"
       THEN /\ ex' = [ex EXCEPT ![rpt.obj] =
                         ExecutorCancel([@ EXCEPT !.exec_status =
                                                     UpdateStatus(@, rpt.rpc_status)],
                                        "INTERNAL_ERROR")]
            /\ rpt' = [rpt EXCEPT !.cancels = @ + 1, !.pc = "idle", !.outcome = "rpc_failed"]
       ELSE /\ rpt' = [rpt EXCEPT !.pc = "idle", !.outcome = "delivered"]
            /\ UNCHANGED ex
    /\ UNCHANGED <<now, fragment_map, pipeline_map, fragments_ctx_map, ctx, req, pc, frame,
                   rpc_left, api>>
    /\ UNCHANGED otherVars

ReportSteps ==
    \/ ReportGetClient
    \/ ReportExecStatus
    \/ ReportReopen
    \/ ReportCheck

Next ==
    \/ \E r \in Reqs : SubmitStart(r)
    \/ \E r \in Reqs : CheckDuplicate(r)
    \/ \E r \in Reqs : GetQueryCtx(r)
    \/ \E r \in Reqs : PipelineCheckDuplicate(r)
    \/ \E r \in Reqs : PushFragmentId(r)
    \/ \E r \in Reqs : Prepare(r)
    \/ \E r \in Reqs : InsertFragment(r)
    \/ \E r \in Reqs : PoolSubmit(r)
    \/ \E r \in Reqs : PipelinePrepare(r)
    \/ \E r \in Reqs : PipelineInsert(r)
    \/ \E r \in Reqs : PipelineSubmit(r)
    \/ \E o \in Objs : ExecuteWait(o)
    \/ \E o \in Objs : ExecuteCheckCancelled(o)
    \/ \E o \in Objs : ExecuteOpen(o)
    \/ \E o \in Objs : ExecActualCountdown(o)
    \/ \E o \in Objs : ExecActualErase(o)
    \/ \E o \in Objs : RemovePipelineContext(o)
    \/ RpcCancel
    \/ \E t \in Threads : CancelLookup(t)
    \/ \E t \in Threads : CancelLookupPipeline(t)
    \/ \E t \in Threads : ExecStateCancelCheck(t)
    \/ \E t \in Threads : ExecStateCancelAct(t)
    \/ SweepScan
    \/ SweepWake
    \/ \E q \in Queries : StartQueryExecution(q)
    \/ \E q \in Queries : CancelQuery(q)
    \/ CancelQueryReturn
    \/ \E q \in Queries : QueryIsCanceled(q)
    \/ \E o \in Objs : CoordinatorCallback(o)
    \/ ReportSteps
    \/ Tick

Spec == Init /\ [][Next]_vars

\* ---------------------------------------------------------------------
\* specifications over restricted environments
\* ---------------------------------------------------------------------

\* the steps of a submit call on the non-pipeline path after its arrival,
\* and of the worker task it starts
LegacySteps ==
    \/ \E r \in Reqs : CheckDuplicate(r)
    \/ \E r \in Reqs : GetQueryCtx(r)
    \/ \E r \in Reqs : PushFragmentId(r)
    \/ \E r \in Reqs : Prepare(r)
    \/ \E r \in Reqs : InsertFragment(r)
    \/ \E r \in Reqs : PoolSubmit(r)
    \/ \E o \in Objs : ExecuteWait(o)
    \/ \E o \in Objs : ExecuteCheckCancelled(o)
    \/ \E o \in Objs : ExecuteOpen(o)
    \/ \E o \in Objs : ExecActualCountdown(o)
    \/ \E o \in Objs : ExecActualErase(o)
    \/ \E t \in Threads : ExecStateCancelCheck(t)
    \/ \E t \in Threads : ExecStateCancelAct(t)

\* the steps only the pipeline path takes
PipelineSteps ==
    \/ \E r \in Reqs : PipelineCheckDuplicate(r)
    \/ \E r \in Reqs : PipelinePrepare(r)
    \/ \E r \in Reqs : PipelineInsert(r)
    \/ \E r \in Reqs : PipelineSubmit(r)
    \/ \E o \in Objs : RemovePipelineContext(o)

SubmitSteps == LegacySteps \/ PipelineSteps

\* submissions and completions only: no start trigger to wait for, no
\* timeout, no cancel RPC, the clock stands still
ParamsSubmit == {p \in Params : ~p.need_wait /\ p.has_opts /\ p.timeout = 0}

SubmitPlain(r) == SubmitFrom(r, ParamsSubmit)

NextSubmit ==
    \/ \E r \in Reqs : SubmitPlain(r)
    \/ SubmitSteps

SpecSubmit == Init /\ [][NextSubmit]_vars

\* the memory limit a request may carry in its query options
MemLimitChoices == {0, 1, ProcessMemLimit, LargeMemLimit}

\* requests that differ in the memory limit they ask for
ParamsMem == {p \in Params : /\ p.entry = "legacy" /\ ~p.need_wait /\ p.has_opts
                             /\ p.timeout = 0 /\ p.fault \in {"none", "open"}
                             /\ p.inst \in {1, 3} /\ ~p.simplified}

SubmitWithMemLimit(r) ==
    /\ pc[ReqT(r)] = "idle"
    /\ r > 1 => pc[ReqT(r - 1)] # "idle"
    /\ \E p \in ParamsMem, isset_mem_limit \in BOOLEAN, mem_limit \in MemLimitChoices :
          req' = [req EXCEPT ![r] = [NoReq EXCEPT !.inst = p.inst, !.entry = p.entry,
                                                     !.simplified = p.simplified,
                                                     !.has_opts = p.has_opts,
                                                     !.fault = p.fault,
                                                     !.isset_mem_limit = isset_mem_limit,
                                                     !.mem_limit = mem_limit]]
    /\ pc' = [pc EXCEPT ![ReqT(r)] = "check"]
    /\ UNCHANGED <<now, fragment_map, pipeline_map, fragments_ctx_map, ctx, ex, frame,
                   rpc_left, api, rpt>>
    /\ UNCHANGED otherVars

NextMem ==
    \/ \E r \in Reqs : SubmitWithMemLimit(r)
    \/ LegacySteps

SpecMem == Init /\ [][NextMem]_vars

\* plain requests of one query whose executors report while they are open;
\* an executor is closed only when its reporting thread is not in a call
ParamsReport == {p \in Params : /\ p.entry = "legacy" /\ ~p.need_wait /\ p.has_opts
                                /\ p.timeout = 0 /\ p.fault = "none"
                                /\ p.inst \in {1, 3} /\ ~p.simplified}

SubmitReporting(r) == SubmitFrom(r, ParamsReport)

ExecuteOpenReported(o) == rpt.pc = "idle" /\ ExecuteOpen(o)

NextReport ==
    \/ \E r \in Reqs : SubmitReporting(r)
    \/ \E r \in Reqs : CheckDuplicate(r)
    \/ \E r \in Reqs : GetQueryCtx(r)
    \/ \E r \in Reqs : PushFragmentId(r)
    \/ \E r \in Reqs : Prepare(r)
    \/ \E r \in Reqs : InsertFragment(r)
    \/ \E r \in Reqs : PoolSubmit(r)
    \/ \E o \in Objs : ExecuteWait(o)
    \/ \E o \in Objs : ExecuteCheckCancelled(o)
    \/ \E o \in Objs : ExecuteOpenReported(o)
    \/ \E o \in Objs : ExecActualCountdown(o)
    \/ \E o \in Objs : ExecActualErase(o)
    \/ \E o \in Objs : CoordinatorCallback(o)
    \/ ReportSteps

SpecReport == Init /\ [][NextReport]_vars

\* instances of query Q1 that may wait for the start trigger, on the
\* non-pipeline path or as pipeline requests, and start triggers for any query
ParamsStart == {p \in Params : /\ p.inst \in {1, 3} /\ p.entry \in {"legacy", "pipe_params"}
                               /\ p.has_opts /\ p.timeout = 0 /\ ~p.simplified
                               /\ p.fault = "none"}

SubmitWaiting(r) == SubmitFrom(r, ParamsStart)

NextStart ==
    \/ \E r \in Reqs : SubmitWaiting(r)
    \/ SubmitSteps
    \/ \E q \in Queries : StartQueryExecution(q)

SpecStart == Init /\ [][NextStart]_vars

\* the coordinator delivers one request and then delivers the same request
\* again (a retry of the RPC)
SubmitFirst(r) == r = 1 /\ SubmitFrom(r, ParamsSubmit)

SubmitAgain(r) ==
    /\ r > 1
    /\ SubmitFrom(r, {p \in ParamsSubmit : /\ p.inst = req[1].inst
                                           /\ p.entry = req[1].entry
                                           /\ p.simplified = req[1].simplified})

NextRetry ==
    \/ \E r \in Reqs : SubmitFirst(r)
    \/ \E r \in Reqs : SubmitAgain(r)
    \/ SubmitSteps

SpecRetry == Init /\ [][NextRetry]_vars

\* the timeout sweep at work: requests with and without query options and
\* with an execution timeout of 0 or 1 second, the clock running, no start
\* trigger to wait for and no cancel RPC
ParamsSweep == {p \in Params : /\ p.inst \in {1, 2} /\ ~p.need_wait /\ ~p.simplified /\ p.entry = "legacy"
                                /\ p.fault = "none"}

SubmitTimed(r) == SubmitFrom(r, ParamsSweep)

NextSweep ==
    \/ \E r \in Reqs : SubmitTimed(r)
    \/ LegacySteps
    \/ \E t \in Threads : CancelLookup(t)
    \/ \E t \in Threads : CancelLookupPipeline(t)
    \/ SweepScan
    \/ SweepWake
    \/ Tick

SpecSweep == Init /\ [][NextSweep]_vars

\* cancel RPCs at work: legacy requests that may wait for the start trigger,
\* the coordinator's cancel RPCs and start trigger, the clock stands still
ParamsCancel == {p \in Params : /\ p.inst \in {1, 2} /\ p.entry = "legacy" /\ p.has_opts /\ p.timeout = 0
                                 /\ ~p.simplified /\ p.fault = "none"}

SubmitCancellable(r) == SubmitFrom(r, ParamsCancel)

\* the coordinator sends the start trigger for a query whose gate is closed
StartClosedGate(q) ==
    /\ fragments_ctx_map[q] # 0
    /\ ~ctx[fragments_ctx_map[q]].ready
    /\ StartQueryExecution(q)

CancelSteps ==
    \/ LegacySteps
    \/ \E t \in Threads : CancelLookup(t)
    \/ \E t \in Threads : CancelLookupPipeline(t)
    \/ \E q \in Queries : StartClosedGate(q)

NextCancel ==
    \/ \E r \in Reqs : SubmitCancellable(r)
    \/ RpcCancel
    \/ CancelSteps

SpecCancel == Init /\ [][NextCancel]_vars

\* the same, with every thread that can take a step taking one eventually:
\* RPC handlers, pool workers and the cancel thread are never starved
FairCancel ==
    /\ \A r \in Reqs : WF_vars(CheckDuplicate(r) \/ GetQueryCtx(r) \/ PushFragmentId(r)
                                \/ Prepare(r) \/ InsertFragment(r) \/ PoolSubmit(r))
    /\ \A o \in Objs : WF_vars(ExecuteWait(o) \/ ExecuteCheckCancelled(o) \/ ExecuteOpen(o)
                                \/ ExecActualCountdown(o) \/ ExecActualErase(o))
    /\ \A t \in Threads : WF_vars(CancelLookup(t) \/ CancelLookupPipeline(t)
                                   \/ ExecStateCancelCheck(t) \/ ExecStateCancelAct(t))

SpecCancelFair == SpecCancel /\ FairCancel

\* query-level calls at work: the two instances of query Q1 on the
\* non-pipeline path, cancel RPCs for an instance or for the whole query, and
\* query_is_canceled
ParamsQuery == {p \in Params : /\ p.inst \in {1, 3} /\ p.entry = "legacy" /\ p.has_opts
                                /\ p.timeout = 0 /\ ~p.need_wait /\ p.fault = "none"}

SubmitQuery(r) == SubmitFrom(r, ParamsQuery)

NextQuery ==
    \/ \E r \in Reqs : SubmitQuery(r)
    \/ LegacySteps
    \/ RpcCancel
    \/ \E t \in Threads : CancelLookup(t)
    \/ \E t \in Threads : CancelLookupPipeline(t)
    \/ \E q \in Queries : CancelQuery(q)
    \/ CancelQueryReturn
    \/ \E q \in Queries : QueryIsCanceled(q)

SpecQuery == Init /\ [][NextQuery]_vars

\* cancel_query without a concurrent registration: the instances of query Q1
\* on either path; no submit call is in progress when cancel_query starts
\* and none arrives before it has returned
ParamsCancelQuery == {p \in Params : /\ p.inst \in {1, 3} /\ p.entry # "pipe_opt" /\ p.has_opts
                                      /\ p.timeout = 0 /\ ~p.need_wait /\ ~p.simplified
                                      /\ p.fault = "none"}

SubmitQuiet(r) ==
    /\ pc[RpcT] = "idle"
    /\ SubmitFrom(r, ParamsCancelQuery)

CancelQueryQuiet(q) ==
    /\ \A r \in Reqs : pc[ReqT(r)] \in {"idle", "done"}
    /\ CancelQuery(q)

NextCancelQuery ==
    \/ \E r \in Reqs : SubmitQuiet(r)
    \/ SubmitSteps
    \/ \E t \in Threads : CancelLookup(t)
    \/ \E t \in Threads : CancelLookupPipeline(t)
    \/ \E q \in Queries : CancelQueryQuiet(q)
    \/ CancelQueryReturn

SpecCancelQuery == Init /\ [][NextCancelQuery]_vars

\* ---------------------------------------------------------------------
\* properties
\* ---------------------------------------------------------------------

\* instance id i is registered as live, on either execution path
Live(i) == fragment_map[i] # 0 \/ pipeline_map[i] # 0

\* submit call r performs its duplicate check in this step
AtDuplicateCheck(r) ==
    /\ pc[ReqT(r)] \in {"check", "pcheck"}
    /\ pc'[ReqT(r)] # pc[ReqT(r)]

\* C1: every fragment instance id has at most one entry in the live-fragment
\* registry (legacy map and pipeline map together), and a submit whose
\* duplicate check runs while its instance id is registered as live, on
\* either execution path, returns success without going on to prepare,
\* register or execute the instance again.
C1_DuplicateSubmitIsNoOp ==
    [][/\ \A i \in Insts : ~(fragment_map[i] # 0 /\ pipeline_map[i] # 0)
       /\ \A r \in Reqs :
             (AtDuplicateCheck(r) /\ Live(req[r].inst))
                => (pc'[ReqT(r)] = "done" /\ req'[r].ret = "OK")]_vars

\* the worker task of exec state o has been submitted and has not finished
InProgress(o) == pc[TaskT(o)] \notin {"idle", "finished"}

\* C2: when the same fragment-instance request is delivered twice and the
\* two submit calls overlap, the instance is still executed at most once:
\* no instance id ever has two execution tasks in progress.
C2_OverlappingDuplicateRunsOnce ==
    \A o1, o2 \in Objs :
        (o1 # o2 /\ ex[o1].kind = "legacy" /\ ex[o2].kind = "legacy"
                 /\ ex[o1].inst = ex[o2].inst)
            => ~(InProgress(o1) /\ InProgress(o2))

\* C3: the live-fragment countdown of every query context never goes below
\* zero, and a context leaves the registry only by the completion that takes
\* its count from 1 to 0.
C3_CountdownNeverNegative ==
    [][/\ \A c \in Ctxs : ctx'[c].fragment_num >= 0
       /\ \A q \in Queries :
             (fragments_ctx_map[q] # 0 /\ fragments_ctx_map'[q] = 0)
                => ctx'[fragments_ctx_map[q]].fragment_num = 0]_vars

\* submit call r resolves its query context in this step
ResolvesCtx(r) ==
    /\ pc[ReqT(r)] = "getctx"
    /\ pc'[ReqT(r)] \in {"push", "pcheck"}

\* the task or pipeline context o counts its query context down in this step
CountsDown(o) ==
    /\ pc[TaskT(o)] \in {"countdown", "prunning"}
    /\ pc'[TaskT(o)] # pc[TaskT(o)]

\* the completion of o leaves the registry critical section in this step
Completes(o) ==
    /\ pc[TaskT(o)] \in {"erase", "prunning"}
    /\ pc'[TaskT(o)] = "finished"

\* C4 (as stated): the first submit of a query creates its context with
\* live-count 1 and a simplified follow-up submit raises the live-count by 1.
C4_ScenarioA_AsStated ==
    [][\A r \in Reqs :
          ResolvesCtx(r) =>
             LET c == req'[r].ctx
             IN IF req[r].simplified
                THEN ctx'[c].fragment_num = ctx[c].fragment_num + 1
                ELSE ctx[c].exists \/ ctx'[c].fragment_num = 1]_vars

\* C4 (amended): the first submit of a query creates and registers its
\* context with the countdown at the declared fragment_num_on_host (2 for a
\* query with two instances on the host); a simplified follow-up submit is
\* given the registered context and no step of a submit changes the count;
\* every completion lowers the count by exactly 1; a completion that leaves
\* the count above 0 leaves the context registered; the completion that
\* brings the count to 0 removes the context of that query id.
C4_ScenarioA ==
    [][/\ \A r \in Reqs :
             ResolvesCtx(r) =>
                LET q == QueryOf(req[r].inst)
                    c == req'[r].ctx
                IN /\ fragments_ctx_map'[q] = c
                   /\ IF req[r].simplified \/ fragments_ctx_map[q] # 0
                      THEN c = fragments_ctx_map[q] /\ ctx' = ctx
                      ELSE ctx'[c].fragment_num = FragNumOnHost(q)
       /\ \A c \in Ctxs :
             (ctx[c].exists /\ ctx'[c].fragment_num # ctx[c].fragment_num)
                => /\ ctx'[c].fragment_num = ctx[c].fragment_num - 1
                   /\ \E o \in Objs : ex[o].ctx = c /\ CountsDown(o)
       /\ \A o \in Objs :
             CountsDown(o) => (ex'[o].all_done <=> ctx'[ex[o].ctx].fragment_num = 0)
       /\ \A o \in Objs :
             Completes(o) =>
                IF ex'[o].all_done
                THEN fragments_ctx_map'[ctx[ex[o].ctx].query_id] = 0
                ELSE fragments_ctx_map' = fragments_ctx_map]_vars

\* Scenario A has run: I1 of Q1 was submitted first, I3 of Q1 as a
\* simplified follow-up, both were executed on the one context and have
\* completed, the count is 0 and the context is gone from the registry.
C4_Witness ==
    /\ req[1].inst = 1 /\ ~req[1].simplified /\ req[1].entry = "legacy"
    /\ req[2].inst = 3 /\ req[2].simplified /\ req[2].entry = "legacy"
    /\ ex[1].ctx = 1 /\ ex[2].ctx = 1
    /\ pc[TaskT(1)] = "finished" /\ pc[TaskT(2)] = "finished"
    /\ ctx[1].fragment_num = 0
    /\ fragments_ctx_map[1] = 0

\* C5: completing a fragment instance is one atomic step under the registry
\* lock: no state exists in which its countdown has been decremented while
\* the instance is still in the live map.
C5_CompletionAtomic ==
    \A o \in Objs :
        (ex[o].kind = "legacy" /\ fragment_map[ex[o].inst] = o)
            => pc[TaskT(o)] # "erase"

\* C6: the cancelled flag is monotonic and cancel is idempotent: once an
\* instance is cancelled, no later step un-cancels it, invokes the executor's
\* cancel again, or changes what the first cancel left behind (the reason
\* and the report-on-cancel switch).
C6_CancelIdempotent ==
    [][\A o \in Objs :
          ex[o].cancelled =>
             /\ ex'[o].cancelled
             /\ ex'[o].exec_cancels = ex[o].exec_cancels
             /\ ex'[o].report_on_cancel = ex[o].report_on_cancel
             /\ ex'[o].reason = ex[o].reason]_vars

\* the timeout of exec state o has elapsed: now > t0 + T with T > 0
TimedOut(o) ==
    /\ ex[o].timeout_second > 0
    /\ now > ex[o].start_time + ex[o].timeout_second

\* the cancel thread finishes the locked part of a pass
SweepPass == pc[SweepT] = "scan" /\ pc'[SweepT] # "scan"

\* the ids the pass has put on its to_cancel list
SweepSelected == {frame'[SweepT].todo[k] : k \in 1..Len(frame'[SweepT].todo)}

\* C7: a sweep asks for the cancellation (reason TIMEOUT) of exactly the
\* live instances with timeout_second = T > 0 for which it observes
\* now > t0 + T; an instance is marked TIMEOUT only by the sweep and only
\* past its deadline, and the sweep's cancel marks the instance cancelled;
\* instances with timeout_second <= 0 are never selected.
C7_TimeoutSweep ==
    [][/\ SweepPass =>
            /\ pc'[SweepT] = (IF SweepSelected = {} THEN "sleep" ELSE "lookup")
            /\ \A i \in Insts :
                  i \in SweepSelected <=> (fragment_map[i] # 0 /\ TimedOut(fragment_map[i]))
       /\ \A o \in Objs :
            (ex[o].reason # "TIMEOUT" /\ ex'[o].reason = "TIMEOUT") =>
               /\ pc[SweepT] = "cancel_act"
               /\ frame[SweepT].tgt = o
               /\ TimedOut(o)
       /\ (pc[SweepT] = "cancel_act" /\ pc'[SweepT] # "cancel_act") =>
            /\ ex'[frame[SweepT].tgt].cancelled
            /\ ex[frame[SweepT].tgt].exec_cancels = 0 =>
                  ex'[frame[SweepT].tgt].reason = "TIMEOUT"]_vars

\* exec state o is the entry of the live-fragment map under its instance id
Registered(o) == ex[o].inst # 0 /\ fragment_map[ex[o].inst] = o

\* C8: every instance the pool has accepted eventually is out of the live
\* registry with a final report sent to the coordinator.
C8_EveryInstanceReported ==
    \A o \in Objs :
       (pc[TaskT(o)] = "queued") ~> (~Registered(o) /\ ex[o].reported)

\* the timeout of context c has elapsed
CtxTimedOut(c) ==
    /\ ctx[c].timeout_second > 0
    /\ now > ctx[c].start_time + ctx[c].timeout_second

\* C9: a registered context leaves the registry only in a sweep pass that
\* finds it timed out, or with its own countdown used up.
C9_CtxLeavesByOwnCountdownOrSweep ==
    [][\A q \in Queries :
          (fragments_ctx_map[q] # 0 /\ fragments_ctx_map'[q] # fragments_ctx_map[q]) =>
             \/ SweepPass /\ CtxTimedOut(fragments_ctx_map[q])
             \/ ctx'[fragments_ctx_map[q]].fragment_num <= 0]_vars

\* C10: a sweep pass removes exactly the registered contexts whose timeout
\* has elapsed, whether or not instances of the query are live, and the pass
\* itself leaves the live maps, the instances and the contexts untouched.
C10_SweepEvictsTimedOutContexts ==
    [][SweepPass =>
          /\ \A q \in Queries :
                fragments_ctx_map'[q] =
                   IF fragments_ctx_map[q] # 0 /\ CtxTimedOut(fragments_ctx_map[q])
                   THEN 0 ELSE fragments_ctx_map[q]
          /\ fragment_map' = fragment_map
          /\ pipeline_map' = pipeline_map
          /\ ex' = ex
          /\ ctx' = ctx]_vars

\* a context was evicted while an instance holding it is still registered
\* and not cancelled
C10_Witness ==
    \E o \in Objs :
       /\ Registered(o)
       /\ ~ex[o].cancelled
       /\ ex[o].exec_cancels = 0
       /\ ctx[ex[o].ctx].fragment_num > 0
       /\ CtxTimedOut(ex[o].ctx)
       /\ fragments_ctx_map[ctx[ex[o].ctx].query_id] = 0
       /\ pc[SweepT] = "sleep"

\* exec state or pipeline context o is live under its instance id
LiveObj(o) ==
    /\ ex[o].inst # 0
    /\ fragment_map[ex[o].inst] = o \/ pipeline_map[ex[o].inst] = o

\* some live instance registered under the context of query q is cancelled
AnyLiveCancelled(q) ==
    \E o \in Objs :
       /\ LiveObj(o)
       /\ ex[o].ctx = fragments_ctx_map[q]
       /\ \E k \in 1..Len(ctx[ex[o].ctx].fragment_ids) : ctx[ex[o].ctx].fragment_ids[k] = ex[o].inst
       /\ ex[o].cancelled

\* C11: query_is_canceled(Q) returns true when Q has no registered context
\* or when some live instance registered under Q's context is cancelled; it
\* returns false only when the context is registered and no live instance
\* of it is cancelled.
C11_QueryIsCanceled ==
    [][\A q \in Queries :
          (api' # api /\ api'.op = "query_is_canceled" /\ api'.query = q)
             => ((fragments_ctx_map[q] = 0 \/ AnyLiveCancelled(q)) => api'.result = "true")]_vars

\* cancel_query starts in this step
CancelQueryStarts ==
    /\ pc[RpcT] = "idle" /\ pc'[RpcT] # "idle"
    /\ api'.op = "cancel_query"

\* cancel_query returns in this step
CancelQueryReturns == pc[RpcT] = "cq_return" /\ pc'[RpcT] = "idle"

\* C12: when cancel_query(Q) runs without a concurrent registration for Q,
\* every instance registered under Q's context that is live when the call
\* returns has been cancelled, with the reason of the call if the call is the
\* first cancel of the run; a call for a query without registered context
\* changes nothing.
C12_CancelQueryCancelsAll ==
    [][/\ (CancelQueryStarts /\ fragments_ctx_map[api'.query] = 0) =>
            /\ pc'[RpcT] = "cq_return"
            /\ UNCHANGED <<fragment_map, pipeline_map, fragments_ctx_map, ctx, ex>>
       /\ (CancelQueryReturns /\ fragments_ctx_map[api.query] # 0) =>
            \A o \in Objs :
               (LiveObj(o) /\ ex[o].ctx = fragments_ctx_map[api.query]) =>
                  /\ ex[o].cancelled
                  /\ rpc_left = MaxCancelRpc - 1 => ex[o].reason = api.reason]_vars

\* the ids cancel_query has copied
CopiedIds == {api.ids[k] : k \in 1..Len(api.ids)}

\* C13: cancel_query works on the id list it copied at its start: the list
\* is the one of the registered context at that moment and the call cancels
\* only instances with an id on it, so that an instance registered under the
\* query after the copy is missed (the witness is such a run).
C13_CancelQueryWorksOnSnapshot ==
    [][/\ CancelQueryStarts =>
            /\ api'.ids = (IF fragments_ctx_map[api'.query] # 0
                           THEN ctx[fragments_ctx_map[api'.query]].fragment_ids ELSE <<>>)
            /\ frame'[RpcT].todo = api'.ids
       /\ \A o \in Objs :
            (api.op = "cancel_query" /\ pc[RpcT] = "cancel_act" /\ pc'[RpcT] # "cancel_act"
                /\ ex'[o] # ex[o])
               => ex[o].inst \in CopiedIds]_vars

\* cancel_query(Q) is about to return, and an instance of Q that was
\* registered under Q's context after the copy is live and not cancelled
C13_Witness ==
    /\ pc[RpcT] = "cq_return"
    /\ api.ids # <<>>
    /\ \E o \in Objs :
          /\ Registered(o)
          /\ ex[o].ctx = fragments_ctx_map[api.query]
          /\ ex[o].inst \notin CopiedIds
          /\ ~ex[o].cancelled
          /\ ex[o].exec_cancels = 0

\* C14: a simplified request for a query without a registered context
\* returns the not-found error, creates no context, and nothing is ever
\* registered or executed for it.
C14_SimplifiedWithoutCtxFails ==
    [][\A r \in Reqs :
          /\ (/\ pc[ReqT(r)] = "getctx" /\ pc'[ReqT(r)] # "getctx"
              /\ req[r].simplified
              /\ fragments_ctx_map[QueryOf(req[r].inst)] = 0)
                => /\ req'[r].ret = "ERR_CTX_NOT_FOUND"
                   /\ pc'[ReqT(r)] = "done"
                   /\ UNCHANGED <<fragments_ctx_map, ctx, fragment_map, pipeline_map, ex>>
          /\ req[r].ret = "ERR_CTX_NOT_FOUND"
                => /\ req'[r] = req[r]
                   /\ ex'[r] = NoEx /\ ctx'[r] = NoCtx
                   /\ pc'[TaskT(r)] = "idle"
                   /\ \A i \in Insts : fragment_map'[i] # r /\ pipeline_map'[i] # r]_vars

\* a simplified request has failed for want of a context while the other
\* request went on
C14_Witness ==
    \E r \in Reqs :
       /\ req[r].simplified /\ req[r].ret = "ERR_CTX_NOT_FOUND"
       /\ pc[ReqT(r)] = "done"
       /\ \E r2 \in Reqs : r2 # r /\ pc[ReqT(r2)] = "done" /\ req[r2].ret = "OK"

\* request r2 holds the context registered for the query of request r and
\* has not gone past building its exec state
HoldsRegistered(r2, r) ==
    /\ r2 # r
    /\ ~req[r2].simplified
    /\ req[r2].inst # 0 /\ QueryOf(req[r2].inst) = QueryOf(req[r].inst)
    /\ pc[ReqT(r2)] \in {"pcheck", "push"}
    /\ req[r2].ctx = fragments_ctx_map[QueryOf(req[r].inst)]

\* C15: a non-simplified request that gets through _get_query_ctx holds the
\* context registered under its query id; it inserts its own only when none
\* was registered, otherwise the registry and the registered context stay
\* as they are, so two requests in flight for one query hold the same
\* context and only one was inserted.
C15_OneContextPerQuery ==
    [][\A r \in Reqs :
          (/\ pc[ReqT(r)] = "getctx" /\ pc'[ReqT(r)] \notin {"getctx", "done"}
           /\ ~req[r].simplified)
             => LET q == QueryOf(req[r].inst)
                IN /\ fragments_ctx_map'[q] # 0
                   /\ req'[r].ctx = fragments_ctx_map'[q]
                   /\ fragments_ctx_map[q] # 0 =>
                         /\ UNCHANGED <<fragments_ctx_map, ctx>>
                         /\ ctx'[r] = NoCtx
                   /\ fragments_ctx_map[q] = 0 => fragments_ctx_map'[q] = r
                   /\ \A r2 \in Reqs : HoldsRegistered(r2, r) => req'[r].ctx = req[r2].ctx]_vars

\* two non-simplified requests for two instances of one query are both just
\* past _get_query_ctx; the context of the first is registered, that of the
\* second was dropped
C15_Witness ==
    \E r \in Reqs, r2 \in Reqs :
       /\ HoldsRegistered(r2, r) /\ HoldsRegistered(r, r2)
       /\ req[r].inst # req[r2].inst
       /\ fragments_ctx_map[QueryOf(req[r].inst)] = r
       /\ ctx[r].exists /\ ctx[r2] = NoCtx

\* C16: the byte limit of a query's memory tracker is the smaller of the
\* requested limit and the process limit when a positive limit is requested,
\* and -1 otherwise; a request above the process limit gets the process limit.
C16_BytesLimitClamped ==
    \A c \in Reqs :
       ctx[c].exists =>
          /\ ctx[c].bytes_limit =
                (IF req[c].isset_mem_limit /\ req[c].mem_limit > 0
                 THEN (IF req[c].mem_limit < ProcessMemLimit THEN req[c].mem_limit
                       ELSE ProcessMemLimit)
                 ELSE -1)
          /\ (req[c].isset_mem_limit /\ req[c].mem_limit = LargeMemLimit)
                => ctx[c].bytes_limit = ProcessMemLimit

\* a context was registered for a request asking for more than the process
\* limit, and its tracker is limited to the process limit
C16_Witness ==
    \E c \in Reqs :
       /\ ctx[c].exists /\ fragments_ctx_map[ctx[c].query_id] = c
       /\ req[c].isset_mem_limit /\ req[c].mem_limit = LargeMemLimit
       /\ ctx[c].bytes_limit = ProcessMemLimit

\* how far a call of the callback has got
ReportRank(r) ==
    IF r.pc = "client" THEN 1
    ELSE IF r.pc = "attempt" THEN 2 + 2 * r.attempts
    ELSE IF r.pc = "reopen" THEN 3
    ELSE IF r.pc = "check" THEN 6
    ELSE 7

\* C17: one call of the report callback calls reportExecStatus at most
\* twice and reconnects at most once; the second call is made only after a
\* transport exception of the first and a successful reconnect; when the
\* second call succeeds the callback returns with status and executor
\* untouched; every step of a call takes it further, it never goes back.
C17_ReportAttemptedAtMostTwice ==
    [][/\ rpt'.attempts <= 2
       /\ rpt'.reopens <= 1
       /\ (rpt.attempts = 1 /\ rpt'.attempts = 2)
             => /\ rpt.last = "transport"
                /\ rpt.reopens = 1 /\ rpt.rpc_status = "OK"
       /\ (rpt.pc = "check" /\ rpt.attempts = 2 /\ rpt.last = "OK" /\ rpt' # rpt)
             => /\ rpt'.pc = "idle" /\ rpt'.outcome = "delivered"
                /\ rpt'.cancels = 0
                /\ UNCHANGED ex
       /\ (rpt.pc # "idle" /\ rpt' # rpt) => ReportRank(rpt') > ReportRank(rpt)]_vars

\* a call has returned after a second reportExecStatus that succeeded:
\* nothing was cancelled and the status is still OK
C17_Witness ==
    /\ rpt.pc = "idle" /\ rpt.outcome = "delivered"
    /\ rpt.attempts = 2 /\ rpt.reopens = 1
    /\ rpt.cancels = 0
    /\ ex[rpt.obj].exec_status = "OK" /\ ex[rpt.obj].exec_cancels = 0

\* C18: whenever the callback returns without having delivered the report,
\* the failure is merged into the status of the exec state and the executor
\* was cancelled with INTERNAL_ERROR.
C18_UndeliveredReportCancels ==
    [][(rpt.pc # "idle" /\ rpt'.pc = "idle" /\ rpt'.outcome # "delivered")
          => /\ ex'[rpt.obj].exec_status # "OK"
             /\ rpt'.cancels >= 1
             /\ ex'[rpt.obj].exec_cancels >= 1
             /\ ex'[rpt.obj].reason = "INTERNAL_ERROR"]_vars

\* C19: update_status keeps the first failure: a stored failure is never
\* replaced, an OK status is replaced by the first failure, and the call
\* returns what is stored after it.
C19_UpdateStatusSticky ==
    [][\A o \in Objs :
          /\ ex[o].exec_status # "OK" => ex'[o].exec_status = ex[o].exec_status
          /\ (rpt.pc = "idle" /\ rpt'.pc = "client" /\ rpt'.obj = o)
                => /\ rpt'.exec_status = ex'[o].exec_status
                   /\ ex'[o].exec_status = (IF ex[o].exec_status = "OK" THEN rpt'.status
                                             ELSE ex[o].exec_status)
          /\ (rpt.pc # "idle" /\ rpt'.pc = "idle" /\ rpt.obj = o
                /\ rpt'.outcome # "delivered" /\ ex[o].exec_status = "OK")
                => ex'[o].exec_status # "OK"]_vars

\* update_status(OK) was called on an exec state that holds a failure of an
\* earlier call: the failure stays and is what the call returned
C19_Witness ==
    /\ rpt.pc = "client"
    /\ rpt.status = "OK"
    /\ rpt.exec_status = "INTERNAL_ERROR"
    /\ ex[rpt.obj].exec_status = "INTERNAL_ERROR"

\* the executor of a waiting instance is opened in this step
OpensWaiting(o) ==
    /\ ex[o].kind = "legacy" /\ ex[o].need_wait
    /\ ~ex[o].opened /\ ex'[o].opened

\* the wait of instance o for the start trigger times out in this step
WaitTimesOut(o) == pc[TaskT(o)] = "queued" /\ pc'[TaskT(o)] = "cancel_check"

\* the rest of the statement: a wait that times out belongs to a waiting
\* instance with a closed gate and leads to cancel(INTERNAL_ERROR); an
\* instance that left execute() without being opened was cancelled and is
\* not opened later; a start trigger for a query without a registered
\* context answers with an error and changes nothing else.
WaitAndTrigger ==
    /\ \A o \in Objs :
          /\ WaitTimesOut(o)
                => /\ ex[o].need_wait /\ ~ctx[ex[o].ctx].ready /\ ~ex[o].opened
                   /\ frame'[TaskT(o)].tgt = o
                   /\ frame'[TaskT(o)].reason = "INTERNAL_ERROR"
          /\ (ex[o].kind = "legacy" /\ ~ex[o].opened /\ ex'[o].opened)
                => pc[TaskT(o)] = "open"
          /\ (ex[o].kind = "legacy" /\ ~ex[o].opened
                /\ pc[TaskT(o)] \in {"countdown", "erase", "finished"})
                => ex[o].cancelled /\ ~ex'[o].opened
    /\ \A q \in Queries :
          (fragments_ctx_map[q] = 0 /\ api'.start[q] # api.start[q])
             => /\ api'.start[q] = "ERR_CTX_NOT_FOUND"
                /\ UNCHANGED <<fragment_map, pipeline_map, fragments_ctx_map, ctx, ex, pc>>

Terminal(o) ==
    /\ ex[o].kind = "legacy" /\ req[o].entry = "legacy"
    /\ \/ pc[TaskT(o)] \in {"cancel_check", "cancel_act", "countdown", "erase", "finished"}
       \/ req[o].ret = "ERR_POOL"

LifeState(o) ==
    IF ex[o].kind # "legacy" \/ req[o].entry # "legacy" THEN "NONE"
    ELSE IF Terminal(o) THEN "TERMINAL"
    ELSE IF pc[TaskT(o)] = "open" THEN "RUNNING"
    ELSE IF pc[TaskT(o)] \in {"queued", "check_cancelled"} /\ ex[o].need_wait
         THEN "WAIT_TRIGGER"
    ELSE "PENDING"

\* the edges of the state machine
LifeEdges ==
    {<<"NONE", "PENDING">>, <<"PENDING", "WAIT_TRIGGER">>, <<"PENDING", "RUNNING">>,
     <<"PENDING", "TERMINAL">>, <<"WAIT_TRIGGER", "RUNNING">>,
     <<"WAIT_TRIGGER", "TERMINAL">>, <<"RUNNING", "TERMINAL">>}

\* C21: every exec state moves along PENDING -> (WAIT_TRIGGER) -> RUNNING ->
\* terminal: only an instance that asked for it waits for the trigger, the
\* executor is opened at most once, a terminal state is never left, and an
\* exec state leaves the live map only when it is terminal.
C21_Lifecycle ==
    [][\A o \in Objs :
          /\ LifeState(o)' # LifeState(o) => <<LifeState(o), LifeState(o)'>> \in LifeEdges
          /\ WaitTimesOut(o) => ex[o].need_wait
          /\ LifeState(o)' = "WAIT_TRIGGER" => ex'[o].need_wait
          /\ ex[o].opened => ex'[o].opened /\ LifeState(o)' = "TERMINAL"
          /\ (~ex[o].opened /\ ex'[o].opened) => LifeState(o) = "RUNNING"
          /\ \A i \in Insts :
                (fragment_map[i] = o /\ fragment_map'[i] # o) => LifeState(o)' = "TERMINAL"]_vars

\* C22: no instance id is in the live-fragment map and in the pipeline map at
\* the same time.
C22_MapsDisjoint ==
    \A i \in Insts : ~(fragment_map[i] # 0 /\ pipeline_map[i] # 0)

\* the positions whose step runs, as far as it touches the registry, inside a
\* std::lock_guard on _lock
LockedSteps == {"check", "getctx", "pcheck", "insert", "poolsubmit", "pinsert", "erase",
                "prunning", "lookup", "lookup_p", "scan"}

\* the step is taken by a thread inside a section guarded by _lock
UnderLock == \E t \in Threads : pc[t] \in LockedSteps /\ pc'[t] # pc[t]

\* C23: the live-fragment map, the pipeline map, the query-context map and
\* the fragment_ids list of every context change only in steps taken under
\* _lock.
C23_RegistryMutatedUnderLock ==
    [][(\/ fragment_map' # fragment_map
        \/ pipeline_map' # pipeline_map
        \/ fragments_ctx_map' # fragments_ctx_map
        \/ \E c \in Reqs : ctx'[c].fragment_ids # ctx[c].fragment_ids)
          => UnderLock]_vars

\* C24: when prepare fails the submit call returns that error and ends; the
\* maps stay as they are; on the pipeline path the context is closed through
\* close_if_prepare_failed; the exec state of a call that ended so is never
\* in a live map and its task never runs.
C24_PrepareFailure ==
    [][\A r \in Reqs :
          /\ (/\ pc[ReqT(r)] \in {"prepare", "pprepare"} /\ pc'[ReqT(r)] # pc[ReqT(r)]
              /\ req[r].fault = "prepare")
                => /\ req'[r].ret = "ERR_PREPARE"
                   /\ pc'[ReqT(r)] = "done"
                   /\ UNCHANGED <<fragment_map, pipeline_map>>
                   /\ pc[ReqT(r)] = "pprepare" => ex'[r].kind = "closed"
          /\ req[r].ret = "ERR_PREPARE"
                => /\ req'[r] = req[r]
                   /\ pc'[TaskT(r)] = "idle"
                   /\ ~ex'[r].opened
                   /\ \A i \in Insts : fragment_map'[i] # r /\ pipeline_map'[i] # r]_vars

\* prepare has failed on the non-pipeline path and on the pipeline path; both
\* calls have returned the error
C24_Witness ==
    \E r \in Reqs, r2 \in Reqs :
       /\ req[r].entry = "legacy" /\ req[r].ret = "ERR_PREPARE" /\ pc[ReqT(r)] = "done"
       /\ req[r2].entry # "legacy" /\ req[r2].ret = "ERR_PREPARE" /\ pc[ReqT(r2)] = "done"
       /\ ex[r2].kind = "closed"

\* ---------------------------------------------------------------------
\* ParquetReader::_process_page_index (vec/exec/format/parquet/vparquet_reader.cpp)
\* ---------------------------------------------------------------------
\* Row positions are counted in units of 2^29 rows, so that a 32-bit int
\* holds -4 .. 3 units and an int64_t holds every position of the model.
\* A RowRange is <<first_row, last_row>>, the rows first_row .. last_row - 1.

\* conversion of an int64_t to the int skip_end
ToInt(x) == ((x + IntRange \div 2) % IntRange) - IntRange \div 2

\* PageIndex::create_skipped_row_range: the rows of one page of the row group
SkippedRowRanges(n) == {<<a, b>> : a \in 0..n, b \in 0..n} \ {r \in (0..n) \X (0..n) : r[1] >= r[2]}

RangeSeqs(n) == UNION {[1..k -> SkippedRowRanges(n)] : k \in 0..MaxSkips}

\* the comparison of the std::sort call
RangeLess(l, r) == l[1] < r[1] \/ (l[1] = r[1] /\ l[2] < r[2])

RECURSIVE InsertRange(_, _)
InsertRange(x, s) ==
    IF s = <<>> THEN <<x>>
    ELSE IF RangeLess(x, Head(s)) THEN <<x>> \o s
    ELSE <<Head(s)>> \o InsertRange(x, Tail(s))

RECURSIVE SortRanges(_)
SortRanges(s) == IF s = <<>> THEN <<>> ELSE InsertRange(Head(s), SortRanges(Tail(s)))

\* the loop over the sorted skipped ranges: <<skip_end, candidate_row_ranges>>
RECURSIVE SkipLoop(_, _, _)
SkipLoop(s, skip_end, cand) ==
    IF s = <<>> THEN <<skip_end, cand>>
    ELSE LET r == Head(s) IN
         IF skip_end >= r[1]
         THEN SkipLoop(Tail(s), IF skip_end < r[2] THEN ToInt(r[2]) ELSE skip_end, cand)
         ELSE SkipLoop(Tail(s), ToInt(r[2]), Append(cand, <<skip_end, r[1]>>))

CandidateRowRanges(num_rows, skipped) ==
    IF skipped = <<>> THEN << <<0, num_rows>> >>
    ELSE LET l == SkipLoop(SortRanges(skipped), 0, <<>>) IN
         IF l[1] # num_rows THEN Append(l[2], <<l[1], num_rows>>) ELSE l[2]

InitPageIndex ==
    /\ InitFragmentMgr
    /\ pq = NoPq
    /\ scan = NoScan
    /\ csv = NoCsv
    /\ anp = NoAnp
    /\ pfp = NoPfp
    /\ \E n \in 1..MaxRowUnits : \E s \in RangeSeqs(n) : \E e \in BOOLEAN :
          pidx = [pc |-> "call", num_rows |-> n, skipped |-> s, read_fails |-> e,
                  status |-> "NONE", candidate_row_ranges |-> <<>>]

ProcessPageIndex ==
    /\ pidx.pc = "call"
    /\ pidx' = IF pidx.read_fails /\ pidx.skipped # <<>>
               THEN [pidx EXCEPT !.pc = "done", !.status = "IOError"]
               ELSE [pidx EXCEPT !.pc = "done", !.status = "OK",
                         !.candidate_row_ranges = CandidateRowRanges(pidx.num_rows, pidx.skipped)]
    /\ UNCHANGED <<fmVars, pq, scan, csv, anp, pfp>>

NextPageIndex == ProcessPageIndex

SpecPageIndex == InitPageIndex /\ [][NextPageIndex]_vars

RowsOf(r) == {x \in -IntRange..IntRange : r[1] <= x /\ x < r[2]}
RowsOfAll(s) == UNION {RowsOf(s[i]) : i \in DOMAIN s}

\* C25: after a successful call the candidate ranges are non-empty, sorted and
\* pairwise disjoint, share no row with a skipped range, and together with the
\* skipped ranges hold exactly the rows 0 .. num_rows - 1; without a skipped
\* range they are the one range (0, num_rows).
C25_CandidateRanges ==
    (pidx.pc = "done" /\ pidx.status = "OK") =>
        LET c == pidx.candidate_row_ranges IN
        /\ \A i \in DOMAIN c : c[i][1] < c[i][2]
        /\ \A i \in DOMAIN c : i > 1 => c[i - 1][2] <= c[i][1]
        /\ RowsOfAll(c) \cap RowsOfAll(pidx.skipped) = {}
        /\ RowsOfAll(c) \cup RowsOfAll(pidx.skipped) = 0..(pidx.num_rows - 1)
        /\ pidx.skipped = <<>> => c = << <<0, pidx.num_rows>> >>

\* the same for row groups whose row count fits the int skip_end
C25_CandidateRangesWithinInt ==
    (pidx.pc = "done" /\ pidx.status = "OK" /\ pidx.num_rows < IntRange \div 2) =>
        LET c == pidx.candidate_row_ranges IN
        /\ \A i \in DOMAIN c : c[i][1] < c[i][2]
        /\ \A i \in DOMAIN c : i > 1 => c[i - 1][2] <= c[i][1]
        /\ RowsOfAll(c) \cap RowsOfAll(pidx.skipped) = {}
        /\ RowsOfAll(c) \cup RowsOfAll(pidx.skipped) = 0..(pidx.num_rows - 1)
        /\ pidx.skipped = <<>> => c = << <<0, pidx.num_rows>> >>

\* ---------------------------------------------------------------------
\* ParquetReader::_init_row_groups (vec/exec/format/parquet/vparquet_reader.cpp)
\* ---------------------------------------------------------------------
\* A row group of the file metadata: its row count, the start offset of its
\* first column chunk, the bytes up to the end of its last column chunk, and
\* what _process_row_group_filter answers for it.
RowCounts == {1, ExampleRows}
FilterResults == {"keep", "filter", "error"}

\* row groups lie one after the other in the file
FileLayouts(k) ==
    {[i \in 1..k |-> [num_rows |-> f[i][1], filter |-> f[i][2],
                      start_offset |-> (i - 1) * GroupBytes,
                      total_compressed_size |-> GroupBytes]] :
        f \in [1..k -> RowCounts \X FilterResults]}

RangeOffsets == {(GroupBytes \div 2) * h : h \in 0..(2 * MaxGroups)}

\* a slip in _is_misaligned_range_group: the end of the range is taken in
IsMisalignedRangeGroupInclusive(row_group) ==
    LET start_offset == row_group.start_offset
        end_offset == row_group.start_offset + row_group.total_compressed_size
        row_group_mid == start_offset + (end_offset - start_offset) \div 2
    IN ~(row_group_mid >= pq.range_start_offset
         /\ row_group_mid <= pq.range_start_offset + pq.range_size)

IsMisalignedRangeGroup(row_group) ==
    LET start_offset == row_group.start_offset
        end_offset == row_group.start_offset + row_group.total_compressed_size
        row_group_mid == start_offset + (end_offset - start_offset) \div 2
    IN ~(row_group_mid >= pq.range_start_offset
         /\ row_group_mid < pq.range_start_offset + pq.range_size)

\* row_index after a misaligned group
RowIndexStays(row_index, row_group) == row_index
RowIndexAfterSkipped(row_index, row_group) == row_index + row_group.num_rows

\* the loop over the row groups; idx is row_group_idx + 1
RECURSIVE InitRowGroupsLoop(_, _, _)
InitRowGroupsLoop(idx, row_index, queue) ==
    IF idx > Len(pq.row_groups)
    THEN [status |-> IF queue = <<>> THEN "EndOfFile" ELSE "OK", queue |-> queue]
    ELSE LET row_group == pq.row_groups[idx] IN
         IF pq.is_filter_groups /\ IsMisalignedRangeGroup(row_group)
         THEN InitRowGroupsLoop(idx + 1, RowIndexAfterSkipped(row_index, row_group), queue)
         ELSE IF pq.is_filter_groups /\ row_group.filter = "error"
         THEN [status |-> "Error", queue |-> queue]
         ELSE IF pq.is_filter_groups /\ row_group.filter = "filter"
         THEN InitRowGroupsLoop(idx + 1, row_index + row_group.num_rows, queue)
         ELSE InitRowGroupsLoop(idx + 1, row_index + row_group.num_rows,
                                Append(queue, [row_group_id |-> idx - 1,
                                               first_row |-> row_index,
                                               last_row |-> row_index + row_group.num_rows]))

RECURSIVE SumRows(_, _)
SumRows(groups, n) == IF n = 0 THEN 0 ELSE SumRows(groups, n - 1) + groups[n].num_rows

InitRowGroupsFile ==
    /\ InitFragmentMgr
    /\ pidx = NoPidx
    /\ scan = NoScan
    /\ csv = NoCsv
    /\ anp = NoAnp
    /\ pfp = NoPfp
    /\ \E k \in 0..MaxGroups : \E g \in FileLayouts(k) :
       \E s \in RangeOffsets : \E z \in RangeOffsets \cup {-1} : \E f \in BOOLEAN :
          pq = [pc |-> "init", row_groups |-> g, range_start_offset |-> s, range_size |-> z,
                is_filter_groups |-> f, read_row_groups |-> <<>>, status |-> "NONE"]

InitRowGroups ==
    /\ pq.pc = "init"
    /\ LET res == IF pq.is_filter_groups
                     /\ (Len(pq.row_groups) = 0 \/ SumRows(pq.row_groups, Len(pq.row_groups)) = 0
                         \/ pq.range_size < 0)
                  THEN [status |-> "EndOfFile", queue |-> pq.read_row_groups]
                  ELSE InitRowGroupsLoop(1, 0, pq.read_row_groups)
       IN pq' = [pq EXCEPT !.pc = "inited", !.status = res.status, !.read_row_groups = res.queue]
    /\ UNCHANGED <<fmVars, pidx, scan, csv, anp, pfp>>

NextRowGroups == InitRowGroups

SpecRowGroups == InitRowGroupsFile /\ [][NextRowGroups]_vars

\* the row groups the scan range and the filters leave, by position in the file
Survives(i) ==
    \/ ~pq.is_filter_groups
    \/ /\ pq.row_groups[i].filter = "keep"
       /\ LET mid == pq.row_groups[i].start_offset + pq.row_groups[i].total_compressed_size \div 2
          IN pq.range_start_offset <= mid /\ mid < pq.range_start_offset + pq.range_size

\* three row groups of ExampleRows rows, the scan range is the bytes of the second
ScenarioC ==
    /\ Len(pq.row_groups) = 3
    /\ \A i \in 1..3 : pq.row_groups[i].num_rows = ExampleRows /\ pq.row_groups[i].filter = "keep"
    /\ pq.is_filter_groups
    /\ pq.range_start_offset = pq.row_groups[2].start_offset
    /\ pq.range_size = pq.row_groups[2].total_compressed_size

\* C26: when _init_row_groups returns without an error of a filter, the queue
\* holds exactly the surviving row groups in file order, each with first_row the
\* sum of the rows of all groups before it in the file and last_row first_row
\* plus its own rows; the result is EndOfFile exactly when the queue is empty;
\* in scenario C the queue is the one group of index 1 with rows [100, 200).
C26_InitRowGroups ==
    (pq.pc = "inited" /\ pq.status # "Error") =>
        LET q == pq.read_row_groups IN
        /\ \A j \in DOMAIN q : j > 1 => q[j - 1].row_group_id < q[j].row_group_id
        /\ {q[j].row_group_id + 1 : j \in DOMAIN q} = {i \in DOMAIN pq.row_groups : Survives(i)}
        /\ \A j \in DOMAIN q :
              /\ q[j].first_row = SumRows(pq.row_groups, q[j].row_group_id)
              /\ q[j].last_row = q[j].first_row + pq.row_groups[q[j].row_group_id + 1].num_rows
        /\ (pq.status = "EndOfFile") <=> (q = <<>>)
        /\ pq.status \in {"OK", "EndOfFile"}
        /\ ScenarioC => q = <<[row_group_id |-> 1, first_row |-> ExampleRows,
                               last_row |-> 2 * ExampleRows]>>

\* scenario C has been initialised, and one group is queued behind two skipped
\* or filtered ones
C26_Witness ==
    /\ pq.pc = "inited"
    /\ ScenarioC
    /\ Len(pq.read_row_groups) = 1
    /\ pq.read_row_groups[1].first_row = ExampleRows

\* ---------------------------------------------------------------------
\* ParquetReader::get_next_block (vec/exec/format/parquet/vparquet_reader.cpp)
\* ---------------------------------------------------------------------
\* what goes wrong while a row group is read: its page index cannot be read,
\* RowGroupReader::init fails, RowGroupReader::next_batch fails
ReadFaults == {"none", "page_index", "init", "batch"}

\* the test that sends get_next_block to the next row group
NeedNextGroupAlways(reader, group_eof) == TRUE
NeedNextGroup(reader, group_eof) == reader = 0 \/ group_eof

\* RowGroupReader::next_batch: up to batch_size rows, and whether the group is
\* exhausted
BatchOf(left) == IF left < BatchRows THEN left ELSE BatchRows

InitReader ==
    /\ InitFragmentMgr
    /\ pidx = NoPidx
    /\ scan = NoScan
    /\ csv = NoCsv
    /\ anp = NoAnp
    /\ pfp = NoPfp
    /\ \E k \in 0..MaxGroups : \E g \in FileLayouts(k) : \E ft \in [1..k -> ReadFaults] :
       \E e \in BOOLEAN :
          /\ \A i \in 1..k : g[i].filter # "error"
          /\ pq = [pc |-> "init", row_groups |-> g, range_start_offset |-> 0,
                   range_size |-> k * GroupBytes, is_filter_groups |-> TRUE,
                   read_row_groups |-> <<>>, status |-> "NONE",
                   faults |-> ft, current_group_reader |-> 0, left |-> 0,
                   row_group_eof |-> e, dequeued |-> <<>>,
                   ret |-> "NONE", read_rows |-> -1, eof |-> "unset"]

\* one call; current_group_reader is 0 for nullptr, else row_group_id + 1;
\* read_rows and eof are the out-parameters, "unset" when the call wrote nothing
GetNextBlock ==
    /\ pq.pc = "inited"
    /\ LET next == NeedNextGroup(pq.current_group_reader, pq.row_group_eof)
           pop == next /\ pq.read_row_groups # <<>>
           g == Head(pq.read_row_groups).row_group_id + 1
           queue == IF pop THEN Tail(pq.read_row_groups) ELSE pq.read_row_groups
           deq == IF pop THEN Append(pq.dequeued, g - 1) ELSE pq.dequeued
       IN IF next /\ ~pop
          THEN pq' = [pq EXCEPT !.current_group_reader = 0, !.row_group_eof = TRUE,
                                !.read_rows = 0, !.eof = "true", !.ret = "OK"]
          ELSE IF pop /\ pq.faults[g] = "page_index"
          THEN pq' = [pq EXCEPT !.read_row_groups = queue, !.dequeued = deq,
                                !.read_rows = -1, !.eof = "unset", !.ret = "Error"]
          ELSE IF pop /\ pq.faults[g] = "init"
          THEN pq' = [pq EXCEPT !.read_row_groups = queue, !.dequeued = deq,
                                !.current_group_reader = g, !.left = pq.row_groups[g].num_rows,
                                !.row_group_eof = FALSE,
                                !.read_rows = -1, !.eof = "unset", !.ret = "Error"]
          ELSE LET cur == IF pop THEN g ELSE pq.current_group_reader
                   left == IF pop THEN pq.row_groups[g].num_rows ELSE pq.left
                   group_eof == IF pop THEN FALSE ELSE pq.row_group_eof
               IN IF pq.faults[cur] = "batch"
                  THEN pq' = [pq EXCEPT !.read_row_groups = queue, !.dequeued = deq,
                                        !.current_group_reader = cur, !.left = left,
                                        !.row_group_eof = group_eof,
                                        !.read_rows = -1, !.eof = "unset",
                                        !.ret = "InternalError"]
                  ELSE LET n == BatchOf(left)
                           done == left - n = 0
                       IN pq' = [pq EXCEPT !.read_row_groups = queue, !.dequeued = deq,
                                           !.current_group_reader = cur, !.left = left - n,
                                           !.row_group_eof = done,
                                           !.read_rows = n,
                                           !.eof = IF ~done THEN "unset"
                                                   ELSE IF queue = <<>> THEN "true" ELSE "false",
                                           !.ret = "OK"]
    /\ UNCHANGED <<fmVars, pidx, scan, csv, anp, pfp>>

NextBlock == InitRowGroups \/ GetNextBlock

SpecNextBlock == InitReader /\ [][NextBlock]_vars

QueueIds(q) == [j \in DOMAIN q |-> q[j].row_group_id]

\* no row group is being read and none is pending
ReaderDrained(p) ==
    /\ p.pc = "inited"
    /\ p.current_group_reader = 0 \/ p.row_group_eof
    /\ p.read_row_groups = <<>>

\* C27: over any sequence of calls the groups dequeued so far followed by the
\* pending ones are the queue that initialisation built, so each group is
\* dequeued once and in queue order; a call moves to a new group reader only
\* when there was none or the current one was exhausted; a call sets eof to
\* true only when the active group is exhausted and the queue is empty; and a
\* call made in that state returns OK with zero rows and eof true.
C27_NextBlock ==
    [][/\ pq'.pc = "inited" =>
             pq'.dequeued \o QueueIds(pq'.read_row_groups)
                 = QueueIds(InitRowGroupsLoop(1, 0, <<>>).queue)
       /\ (pq.pc = "inited" /\ pq'.dequeued # pq.dequeued) =>
             /\ pq.current_group_reader = 0 \/ pq.row_group_eof
             /\ pq'.dequeued = Append(pq.dequeued, Head(pq.read_row_groups).row_group_id)
       /\ (pq.pc = "inited" /\ pq'.current_group_reader \notin {0, pq.current_group_reader}) =>
             /\ pq.current_group_reader = 0 \/ pq.row_group_eof
             /\ pq'.current_group_reader = Head(pq.read_row_groups).row_group_id + 1
       /\ (pq.pc = "inited" /\ pq'.eof = "true") => ReaderDrained(pq')
       /\ ReaderDrained(pq) =>
             pq'.ret = "OK" /\ pq'.read_rows = 0 /\ pq'.eof = "true" /\ ReaderDrained(pq')
      ]_vars

\* two row groups have been read to their end and a further call has answered
\* zero rows with eof true
C27_Witness ==
    /\ pq.pc = "inited"
    /\ Len(pq.dequeued) = 2
    /\ pq.read_row_groups = <<>>
    /\ pq.ret = "OK" /\ pq.read_rows = 0 /\ pq.eof = "true"
    /\ \A i \in DOMAIN pq.faults : pq.faults[i] = "none"

\* ---------------------------------------------------------------------
\* NewOlapScanNode::_init_scanners (vec/exec/scan/new_olap_scan_node.cpp)
\* ---------------------------------------------------------------------
\* scan holds one call: the tablets of _scan_ranges (what the tablet lookup and
\* the capture of the rowset readers answer, the segment count of every rowset,
\* the footprint in MB), the keys type of the table, _shared_scan_opt, the two
\* configuration values, the end_include flags of _cond_ranges, and the result.
\* A scanner is [tablet, key_ranges, seg_offsets]: the positions of its ranges
\* in _cond_ranges and its <<rowset, first segment, end segment>> sub-ranges.
StdMax(a, b) == IF a < b THEN b ELSE a
StdMin(a, b) == IF b < a THEN b ELSE a

\* what TabletManager::get_tablet_and_status and Tablet::capture_rs_readers answer
LookupStatusOk(tablet) == "OK"
LookupStatus(tablet) == tablet.lookup
CaptureStatus(tablet) == tablet.capture

\* the condition of the segment counting loop
CountsSegments == scan.shared_scan_opt /\ Len(scan.tablets) < scan.thread_num

\* the segment counting loop from tablet i on: the status it leaves with
RECURSIVE CaptureLoop(_)
CaptureLoop(i) ==
    IF i > Len(scan.tablets) THEN "OK"
    ELSE IF LookupStatus(scan.tablets[i]) # "OK" THEN LookupStatus(scan.tablets[i])
    ELSE IF ~scan.dup_keys THEN "OK"
    ELSE IF CaptureStatus(scan.tablets[i]) # "OK" THEN "InternalError"
    ELSE CaptureLoop(i + 1)

RECURSIVE SumSeq(_)
SumSeq(s) == IF s = <<>> THEN 0 ELSE Head(s) + SumSeq(Tail(s))

RECURSIVE SegmentCount(_)
SegmentCount(i) ==
    IF i > Len(scan.tablets) THEN 0 ELSE SumSeq(scan.tablets[i].rs_seg_count) + SegmentCount(i + 1)

AvgSegmentCountWhole(segment_count, thread_num) == StdMax(segment_count, 1)
AvgSegmentCount(segment_count, thread_num) == StdMax(segment_count \div thread_num, 1)

AllRanges == [j \in 1..Len(scan.cond_ranges) |-> j]

\* the while loop over the rowsets of tablet t: the scanners it builds
RECURSIVE SplitSegments(_, _, _, _, _, _)
SplitSegments(t, avg, idx, start, occupy, offs) ==
    LET rs_seg_count == scan.tablets[t].rs_seg_count IN
    IF idx > Len(rs_seg_count)
    THEN IF offs # <<>>
         THEN <<[tablet |-> t, key_ranges |-> AllRanges, seg_offsets |-> offs]>>
         ELSE <<>>
    ELSE LET max_add_seg_nums == rs_seg_count[idx] - start IN
         IF occupy + max_add_seg_nums > avg
         THEN LET need_add_seg_nums == avg - occupy IN
              <<[tablet |-> t, key_ranges |-> AllRanges,
                 seg_offsets |-> Append(offs, <<idx, start, start + need_add_seg_nums>>)]>>
              \o SplitSegments(t, avg, idx, start + need_add_seg_nums, 0, <<>>)
         ELSE IF occupy + max_add_seg_nums = avg
         THEN <<[tablet |-> t, key_ranges |-> AllRanges,
                 seg_offsets |-> Append(offs, <<idx, start, rs_seg_count[idx]>>)]>>
              \o SplitSegments(t, avg, idx + 1, 0, 0, <<>>)
         ELSE SplitSegments(t, avg, idx + 1, 0, occupy + max_add_seg_nums,
                            Append(offs, <<idx, start, rs_seg_count[idx]>>))

RECURSIVE SegmentSplit(_, _)
SegmentSplit(t, avg) ==
    IF t > Len(scan.tablets) THEN <<>>
    ELSE SplitSegments(t, avg, 1, 0, 0, <<>>) \o SegmentSplit(t + 1, avg)

ScannersPerTablet == StdMax(1, MaxScannersPerTablet \div Len(scan.tablets))

SizeBasedScannersPerTablet(tablet) ==
    IF scan.max_mb > 0 THEN StdMax(1, tablet.footprint \div scan.max_mb) ELSE 1

RangesPerScannerAll(num_ranges, per_tablet, size_based) == num_ranges
RangesPerScanner(num_ranges, per_tablet, size_based) ==
    StdMax(1, num_ranges \div StdMin(per_tablet, size_based))

\* the inner for loop: the position after the last range of the scanner
RECURSIVE RunEnd(_, _, _)
RunEnd(i, j, ranges_per_scanner) ==
    IF i <= Len(scan.cond_ranges) /\ j < ranges_per_scanner
       /\ scan.cond_ranges[i] = scan.cond_ranges[i - 1]
    THEN RunEnd(i + 1, j + 1, ranges_per_scanner)
    ELSE i

\* the outer for loop over the ranges of tablet t, from range i on
RECURSIVE GroupRanges(_, _, _)
GroupRanges(t, i, ranges_per_scanner) ==
    IF i > Len(scan.cond_ranges) THEN <<>>
    ELSE LET e == RunEnd(i + 1, 1, ranges_per_scanner) IN
         <<[tablet |-> t, key_ranges |-> [j \in 1..(e - i) |-> i + j - 1], seg_offsets |-> <<>>]>>
         \o GroupRanges(t, e, ranges_per_scanner)

\* the loop over the scan ranges of the other path, from tablet t on
RECURSIVE RangeSplit(_, _)
RangeSplit(t, scanners) ==
    IF t > Len(scan.tablets) THEN [status |-> "OK", scanners |-> scanners]
    ELSE IF LookupStatus(scan.tablets[t]) # "OK"
    THEN [status |-> LookupStatus(scan.tablets[t]), scanners |-> scanners]
    ELSE RangeSplit(t + 1,
            scanners \o GroupRanges(t, 1,
                RangesPerScanner(Len(scan.cond_ranges), ScannersPerTablet,
                                 SizeBasedScannersPerTablet(scan.tablets[t]))))

InitScanners ==
    /\ scan.pc = "call"
    /\ LET first == IF CountsSegments THEN CaptureLoop(1) ELSE "OK"
           is_duplicate_key == CountsSegments /\ scan.dup_keys
           res == IF Len(scan.tablets) = 0 THEN [status |-> "OK", scanners |-> <<>>]
                  ELSE IF first # "OK" THEN [status |-> first, scanners |-> <<>>]
                  ELSE IF is_duplicate_key
                  THEN [status |-> "OK",
                        scanners |-> SegmentSplit(1, AvgSegmentCount(SegmentCount(1),
                                                                       scan.thread_num))]
                  ELSE RangeSplit(1, <<>>)
       IN scan' = [scan EXCEPT !.pc = "done", !.status = res.status, !.scanners = res.scanners,
                               !.path = IF Len(scan.tablets) = 0 \/ first # "OK" THEN "none"
                                        ELSE IF is_duplicate_key THEN "segments" ELSE "ranges"]
    /\ UNCHANGED <<fmVars, pidx, pq, csv, anp, pfp>>

NextScanners == InitScanners

SegCounts == {c \in UNION {[1..k -> 0..MaxSegs] : k \in 0..MaxRowsets} : SumSeq(c) <= MaxSegs}

\* _cond_ranges after line 411: the end_include flags, one range with the flag
\* of a default OlapScanRange when the scan keys give none
CondRanges == {<<TRUE>>} \cup UNION {[1..k -> BOOLEAN] : k \in 1..MaxRanges}

\* duplicate-key tables read with the shared scan option
InitSegmentSplit ==
    /\ InitFragmentMgr
    /\ pidx = NoPidx
    /\ pq = NoPq
    /\ csv = NoCsv
    /\ anp = NoAnp
    /\ pfp = NoPfp
    /\ \E n \in 1..MaxTablets : \E c \in [1..n -> SegCounts] : \E th \in 2..MaxThreads :
          /\ n < th
          /\ scan = [pc |-> "call", dup_keys |-> TRUE, shared_scan_opt |-> TRUE,
                     thread_num |-> th, max_mb |-> 1, cond_ranges |-> <<TRUE>>,
                     tablets |-> [i \in 1..n |-> [lookup |-> "OK", capture |-> "OK",
                                                   rs_seg_count |-> c[i], footprint |-> 0]],
                     status |-> "NONE", scanners |-> <<>>, path |-> "none"]

SpecSegmentSplit == InitSegmentSplit /\ [][NextScanners]_vars

ScannersOf(t) == SelectSeq(scan.scanners, LAMBDA s : s.tablet = t)

RECURSIVE Flatten(_)
Flatten(ss) == IF ss = <<>> THEN <<>> ELSE Head(ss) \o Flatten(Tail(ss))

\* the sub-ranges of rowset r among the scanners of tablet t, in scanner order
SubRanges(t, r) ==
    SelectSeq(Flatten([k \in DOMAIN ScannersOf(t) |-> ScannersOf(t)[k].seg_offsets]),
              LAMBDA o : o[1] = r)

SegmentsOf(s) == SumSeq([k \in DOMAIN s.seg_offsets |-> s.seg_offsets[k][3] - s.seg_offsets[k][2]])

\* C28: on the segment-balanced path, for every tablet and every rowset of it
\* the sub-ranges given to the scanners start at segment 0, each begins where
\* the one before ended, and the last ends at the rowset's segment count; and no
\* scanner holds more than max(total segment count / pool size, 1) segments.
C28_SegmentSplit ==
    (scan.pc = "done" /\ scan.path = "segments") =>
        /\ scan.status = "OK"
        /\ \A k \in DOMAIN scan.scanners : scan.scanners[k].tablet \in DOMAIN scan.tablets
        /\ \A t \in DOMAIN scan.tablets : \A r \in DOMAIN scan.tablets[t].rs_seg_count :
              LET sr == SubRanges(t, r) IN
              /\ sr # <<>>
              /\ sr[1][2] = 0
              /\ sr[Len(sr)][3] = scan.tablets[t].rs_seg_count[r]
              /\ \A k \in DOMAIN sr : sr[k][2] <= sr[k][3]
              /\ \A k \in DOMAIN sr : k > 1 => sr[k][2] = sr[k - 1][3] /\ sr[k][2] < sr[k][3]
        /\ \A k \in DOMAIN scan.scanners : \A o \in DOMAIN scan.scanners[k].seg_offsets :
              scan.scanners[k].seg_offsets[o][1]
                  \in DOMAIN scan.tablets[scan.scanners[k].tablet].rs_seg_count
        /\ LET total == SumSeq([t \in DOMAIN scan.tablets |->
                                   SumSeq(scan.tablets[t].rs_seg_count)])
               avg == IF total \div scan.thread_num > 1 THEN total \div scan.thread_num ELSE 1
           IN \A k \in DOMAIN scan.scanners : SegmentsOf(scan.scanners[k]) <= avg

\* a rowset has been cut: its segments went to two scanners of the tablet
C28_Witness ==
    /\ scan.pc = "done" /\ scan.path = "segments"
    /\ \E t \in DOMAIN scan.tablets : \E r \in DOMAIN scan.tablets[t].rs_seg_count :
          Len(SubRanges(t, r)) = 2
    /\ \E k \in DOMAIN scan.scanners : Len(scan.scanners[k].seg_offsets) = 2

\* the footprint of a tablet in MB; the division by doris_scan_range_max_mb << 20
\* bytes is the division of the MB by doris_scan_range_max_mb
Footprints == 0..MaxFootprint

\* tables that do not take the segment-balanced path
InitRangeSplit ==
    /\ InitFragmentMgr
    /\ pidx = NoPidx
    /\ pq = NoPq
    /\ csv = NoCsv
    /\ anp = NoAnp
    /\ pfp = NoPfp
    /\ \E n \in (1..MaxTablets) \cup {MaxScannersPerTablet \div 2} :
       \E fp \in [0..1 -> Footprints] : \E mb \in 0..MaxScanRangeMb : \E cr \in CondRanges :
          scan = [pc |-> "call", dup_keys |-> FALSE, shared_scan_opt |-> FALSE,
                  thread_num |-> MaxThreads, max_mb |-> mb, cond_ranges |-> cr,
                  tablets |-> [i \in 1..n |-> [lookup |-> "OK", capture |-> "OK",
                                                rs_seg_count |-> <<>>, footprint |-> fp[i % 2]]],
                  status |-> "NONE", scanners |-> <<>>, path |-> "none"]

SpecRangeSplit == InitRangeSplit /\ [][NextScanners]_vars

RangesOf(t) == Flatten([k \in DOMAIN ScannersOf(t) |-> ScannersOf(t)[k].key_ranges])

\* C29: on the footprint-based path, for every tablet the ranges of its
\* scanners, taken in scanner order, are the condition ranges in their original
\* order, each once; every scanner holds at least one range and at most
\* max(1, range count / min(scanners per tablet, max(1, footprint / limit)))
\* ranges (the inner maximum is 1 when the limit is not positive); and the
\* ranges of one scanner have the same end_include flag.
C29_RangeSplit ==
    (scan.pc = "done" /\ scan.path = "ranges") =>
        /\ scan.status = "OK"
        /\ \A t \in DOMAIN scan.tablets : RangesOf(t) = [j \in 1..Len(scan.cond_ranges) |-> j]
        /\ \A k \in DOMAIN scan.scanners :
              LET kr == scan.scanners[k].key_ranges
                  t == scan.scanners[k].tablet
                  count == Len(scan.cond_ranges)
                  per_tablet == IF MaxScannersPerTablet \div Len(scan.tablets) > 1
                                THEN MaxScannersPerTablet \div Len(scan.tablets) ELSE 1
                  by_size == IF scan.max_mb > 0 /\ scan.tablets[t].footprint \div scan.max_mb > 1
                             THEN scan.tablets[t].footprint \div scan.max_mb ELSE 1
                  split == IF per_tablet < by_size THEN per_tablet ELSE by_size
                  limit == IF count \div split > 1 THEN count \div split ELSE 1
              IN /\ t \in DOMAIN scan.tablets
                 /\ Len(kr) >= 1
                 /\ Len(kr) <= limit
                 /\ \A a \in DOMAIN kr : scan.cond_ranges[kr[a]] = scan.cond_ranges[kr[1]]

\* a tablet's ranges went to two scanners, one of them with two ranges, and a
\* change of the end_include flag closed a scanner before it was full
C29_Witness ==
    /\ scan.pc = "done" /\ scan.path = "ranges"
    /\ \E t \in DOMAIN scan.tablets :
          /\ Len(ScannersOf(t)) >= 2
          /\ \E k \in DOMAIN ScannersOf(t) : Len(ScannersOf(t)[k].key_ranges) = 2
          /\ \E k \in DOMAIN ScannersOf(t) :
                /\ Len(ScannersOf(t)[k].key_ranges) = 1
                /\ k < Len(ScannersOf(t))
                /\ Len(scan.cond_ranges) \div 2 >= 2
                /\ scan.tablets[t].footprint \div StdMax(scan.max_mb, 1) = 2

\* any table, with tablets that cannot be found or whose rowset readers cannot
\* be captured
InitSplitFailure ==
    /\ InitFragmentMgr
    /\ pidx = NoPidx
    /\ pq = NoPq
    /\ csv = NoCsv
    /\ anp = NoAnp
    /\ pfp = NoPfp
    /\ \E n \in 0..MaxTablets : \E lk \in [1..n -> {"OK", "NotFound"}] :
       \E cp \in [1..n -> {"OK", "Error"}] : \E d \in BOOLEAN : \E sh \in BOOLEAN :
       \E th \in 1..MaxThreads : \E cr \in {<<TRUE>>, <<TRUE, FALSE>>} :
          scan = [pc |-> "call", dup_keys |-> d, shared_scan_opt |-> sh,
                  thread_num |-> th, max_mb |-> 1, cond_ranges |-> cr,
                  tablets |-> [i \in 1..n |-> [lookup |-> lk[i], capture |-> cp[i],
                                                rs_seg_count |-> <<1, 1>>, footprint |-> 1]],
                  status |-> "NONE", scanners |-> <<>>, path |-> "none"]

SpecSplitFailure == InitSplitFailure /\ [][NextScanners]_vars

\* C30: when a tablet of the scan ranges cannot be found, or the rowset readers
\* of a tablet cannot be captured on the path that captures them, the split
\* returns a failure: the lookup's status, or InternalError for the capture;
\* when it returns OK every tablet was found and has its scanners.
C30_SplitFailure ==
    scan.pc = "done" =>
        /\ (\E t \in DOMAIN scan.tablets : scan.tablets[t].lookup # "OK") =>
              scan.status \in {"NotFound", "InternalError"}
        /\ (/\ scan.shared_scan_opt /\ Len(scan.tablets) < scan.thread_num /\ scan.dup_keys
            /\ \E t \in DOMAIN scan.tablets : scan.tablets[t].capture # "OK") =>
              scan.status \in {"NotFound", "InternalError"}
        /\ scan.status = "NotFound" => \E t \in DOMAIN scan.tablets : scan.tablets[t].lookup # "OK"
        /\ scan.status = "InternalError" =>
              \E t \in DOMAIN scan.tablets : scan.tablets[t].capture # "OK"
        /\ scan.status = "OK" =>
              \A t \in DOMAIN scan.tablets : \E k \in DOMAIN scan.scanners :
                  scan.scanners[k].tablet = t

\* the second of two tablets cannot be found, on the path that has already
\* built the scanners of the first, and the call has failed
C30_Witness ==
    /\ scan.pc = "done"
    /\ Len(scan.tablets) = 2
    /\ scan.tablets[1].lookup = "OK" /\ scan.tablets[2].lookup = "NotFound"
    /\ ~scan.shared_scan_opt
    /\ scan.status = "NotFound"

\* ---------------------------------------------------------------------
\* CsvReader (vec/exec/format/csv/csv_reader.cpp)
\* ---------------------------------------------------------------------
\* csv holds the reader: the scan range and the parameters it was built with,
\* what opening the file answers, the lines the line reader will return from
\* the offset it is given ("row" for a line with bytes, "empty" for one
\* without), and the fields init_reader and get_next_block set.
FormatTypes == {"FORMAT_CSV_PLAIN", "FORMAT_CSV_GZ", "FORMAT_PROTO", "FORMAT_PARQUET"}
CompressTypes == {"UNKNOWN", "PLAIN", "GZ"}
FileTypes == {"FILE_LOCAL", "FILE_STREAM"}
HeaderTypes == {"", "csv_with_names", "csv_with_names_and_types"}
OpenResults == {"OK", "IOError", "empty"}

LineSeqs == UNION {[1..k -> {"row", "empty"}] : k \in 0..MaxLines}

\* the test of a range that does not begin the file
SplitUnsupportedNever(format_type, compress_type) == FALSE
SplitUnsupported(format_type, compress_type) ==
    \/ format_type # "FORMAT_CSV_PLAIN"
    \/ (compress_type # "UNKNOWN" /\ compress_type # "PLAIN")

\* CsvReader::_create_decompressor: every compression type of the model has a
\* decompressor; without one the format type decides
CreateDecompressor(format_type, compress_type) ==
    IF compress_type # "UNKNOWN" THEN "OK"
    ELSE IF format_type \in {"FORMAT_PROTO", "FORMAT_CSV_PLAIN", "FORMAT_CSV_GZ"} THEN "OK"
    ELSE "InternalError"

\* the lines init_reader has to skip at the beginning of the file
HeaderSkipLines(header_type, skip_lines) ==
    IF header_type # ""
    THEN IF header_type = "csv_with_names" THEN 1
         ELSE IF header_type = "csv_with_names_and_types" THEN 2 ELSE 0
    ELSE skip_lines

InitCsv ==
    /\ InitFragmentMgr
    /\ pidx = NoPidx
    /\ pq = NoPq
    /\ scan = NoScan
    /\ anp = NoAnp
    /\ pfp = NoPfp
    /\ \E so \in 0..MaxStartOffset : \E ft \in FormatTypes : \E ct \in CompressTypes :
       \E fty \in FileTypes : \E h \in HeaderTypes : \E o \in OpenResults : \E ls \in LineSeqs :
          csv = [pc |-> "new", range_start_offset |-> so, range_size |-> RangeBytes,
                 format_type |-> ft, compress_type |-> ct, file_type |-> fty,
                 header_type |-> h, param_skip_lines |-> 0, open |-> o, lines |-> ls,
                 size |-> RangeBytes, skip_lines |-> 0, file_start_offset |-> so,
                 opened |-> FALSE, line_reader |-> "none", line_reader_eof |-> FALSE,
                 status |-> "NONE", consumed |-> 0, skipped |-> 0, rows |-> 0,
                 eof |-> "unset", ret |-> "NONE"]

CsvInitReader ==
    /\ csv.pc = "new"
    /\ LET start_offset == csv.range_start_offset
           split == start_offset # 0
           skip == IF split THEN 1
                   ELSE HeaderSkipLines(csv.header_type, csv.param_skip_lines)
           set == [csv EXCEPT !.skip_lines = skip,
                              !.size = IF split THEN @ + 1 ELSE @,
                              !.file_start_offset = IF split THEN start_offset - 1
                                                    ELSE start_offset,
                              !.opened = TRUE]
       IN IF split /\ SplitUnsupported(csv.format_type, csv.compress_type)
          THEN csv' = [csv EXCEPT !.pc = "failed", !.status = "SplitCompressed"]
          ELSE IF csv.open = "IOError"
          THEN csv' = [set EXCEPT !.pc = "failed", !.status = "IOError"]
          ELSE IF csv.open = "empty" /\ csv.file_type # "FILE_STREAM"
          THEN csv' = [set EXCEPT !.pc = "failed", !.status = "EndOfFile"]
          ELSE IF CreateDecompressor(csv.format_type, csv.compress_type) # "OK"
          THEN csv' = [set EXCEPT !.pc = "failed", !.status = "InternalError"]
          ELSE IF csv.format_type \in {"FORMAT_CSV_PLAIN", "FORMAT_CSV_GZ"}
          THEN csv' = [set EXCEPT !.pc = "inited", !.status = "OK", !.line_reader = "text"]
          ELSE IF csv.format_type = "FORMAT_PROTO"
          THEN csv' = [set EXCEPT !.pc = "inited", !.status = "OK", !.line_reader = "binary"]
          ELSE csv' = [set EXCEPT !.pc = "failed", !.status = "InternalError"]
    /\ UNCHANGED <<fmVars, pidx, pq, scan, anp, pfp>>

\* the while loop of get_next_block; a read past the last line sets the eof flag
RECURSIVE CsvReadLoop(_)
CsvReadLoop(c) ==
    IF ~(c.rows < BatchRows /\ ~c.line_reader_eof) THEN c
    ELSE LET at_end == c.lines = <<>>
             size == IF at_end \/ Head(c.lines) = "empty" THEN 0 ELSE 1
             read == [c EXCEPT !.lines = IF at_end THEN @ ELSE Tail(@),
                               !.line_reader_eof = at_end,
                               !.consumed = IF at_end THEN @ ELSE @ + 1]
         IN IF c.skip_lines > 0
            THEN CsvReadLoop([read EXCEPT !.skip_lines = @ - 1,
                                          !.skipped = IF at_end THEN @ ELSE @ + 1])
            ELSE IF size = 0 THEN CsvReadLoop(read)
            ELSE CsvReadLoop([read EXCEPT !.rows = @ + 1])

CsvGetNextBlock ==
    /\ csv.pc = "inited"
    /\ csv' = IF csv.line_reader_eof
              THEN [csv EXCEPT !.eof = "true", !.ret = "OK"]
              ELSE LET c == CsvReadLoop([csv EXCEPT !.rows = 0])
                   IN [c EXCEPT !.eof = IF c.rows = 0 THEN "true" ELSE "false", !.ret = "OK"]
    /\ UNCHANGED <<fmVars, pidx, pq, scan, anp, pfp>>

NextCsv == CsvInitReader \/ CsvGetNextBlock

SpecCsv == InitCsv /\ [][NextCsv]_vars

\* C31: with a non-zero start_offset, init_reader fails with the error of split
\* compressed files, before it opens the file, whenever the format is not plain
\* CSV or the compression is neither unknown nor plain; with a non-zero
\* start_offset on a plain uncompressed file it opens the file one byte before
\* start_offset with one byte more to read, and the reader then discards the
\* first line it reads and no other.
C31_SplitRange ==
    (csv.pc \in {"inited", "failed"} /\ csv.range_start_offset # 0) =>
        IF csv.format_type # "FORMAT_CSV_PLAIN" \/ csv.compress_type \notin {"UNKNOWN", "PLAIN"}
        THEN csv.status = "SplitCompressed" /\ ~csv.opened
        ELSE /\ csv.status # "SplitCompressed"
             /\ csv.opened
             /\ csv.file_start_offset = csv.range_start_offset - 1
             /\ csv.size = csv.range_size + 1
             /\ csv.skipped = (IF csv.consumed >= 1 THEN 1 ELSE 0)
             /\ csv.skipped + csv.skip_lines <= 1

\* a compressed split range has been refused
C31_Witness ==
    /\ csv.pc = "failed"
    /\ csv.range_start_offset # 0
    /\ csv.format_type = "FORMAT_CSV_PLAIN" /\ csv.compress_type = "GZ"
    /\ csv.status = "SplitCompressed"

\* ---------------------------------------------------------------------
\* FragmentMgr::~FragmentMgr and the end of cancel_worker
\* ---------------------------------------------------------------------
\* _stop_background_threads_latch.wait_for(1s) returns true: the loop ends
SweepExit ==
    /\ pc[SweepT] = "sleep"
    /\ ~LoopAgain(Stopped)
    /\ pc' = [pc EXCEPT ![SweepT] = "exited"]
    /\ UNCHANGED <<now, fragment_map, pipeline_map, fragments_ctx_map, ctx, ex, req, frame,
                   rpc_left, api, rpt>>
    /\ UNCHANGED otherVars

\* the destructor counts the latch down and goes to join the cancel thread
ShutdownCountDown ==
    /\ pc[DtorT] = "idle"
    /\ pc' = [pc EXCEPT ![DtorT] = "join"]
    /\ UNCHANGED <<now, fragment_map, pipeline_map, fragments_ctx_map, ctx, ex, req, frame,
                   rpc_left, api, rpt>>
    /\ UNCHANGED otherVars

\* _cancel_thread->join() returns when cancel_worker has returned
ShutdownJoin ==
    /\ pc[DtorT] = "join"
    /\ pc[SweepT] = "exited"
    /\ pc' = [pc EXCEPT ![DtorT] = "shutdown"]
    /\ UNCHANGED <<now, fragment_map, pipeline_map, fragments_ctx_map, ctx, ex, req, frame,
                   rpc_left, api, rpt>>
    /\ UNCHANGED otherVars

\* the rest of the destructor: the pool is shut down, which waits for its
\* workers, and the two maps are cleared under _lock
ShutdownClear ==
    /\ pc[DtorT] = "shutdown"
    /\ \A o \in Objs : pc[TaskT(o)] \in {"idle", "finished"}
    /\ \A r \in Reqs : pc[ReqT(r)] \in {"idle", "done"}
    /\ pc' = [pc EXCEPT ![DtorT] = "done"]
    /\ fragment_map' = [i \in Insts |-> 0]
    /\ fragments_ctx_map' = [q \in Queries |-> 0]
    /\ UNCHANGED <<now, pipeline_map, ctx, ex, req, frame, rpc_left, api, rpt>>
    /\ UNCHANGED otherVars

ParamsShutdown == {p \in ParamsSweep : p.inst = 1 /\ p.has_opts}

\* requests arrive while the manager is alive
SubmitAlive(r) == ~Stopped /\ SubmitFrom(r, ParamsShutdown)

NextShutdown ==
    \/ \E r \in Reqs : SubmitAlive(r)
    \/ LegacySteps
    \/ \E t \in Threads : CancelLookup(t)
    \/ \E t \in Threads : CancelLookupPipeline(t)
    \/ SweepScan
    \/ SweepWake
    \/ SweepExit
    \/ Tick
    \/ ShutdownCountDown
    \/ ShutdownJoin
    \/ ShutdownClear

SpecShutdown == Init /\ [][NextShutdown]_vars

\* the cancel thread and the pool workers are never starved
FairShutdown ==
    /\ FairCancel
    /\ WF_vars(SweepScan \/ SweepWake \/ SweepExit)
    /\ WF_vars(ShutdownJoin \/ ShutdownClear)

SpecShutdownFair == SpecShutdown /\ FairShutdown

\* C32: while the latch has not been counted down the cancel thread always
\* comes back to a new sweep; once it has been counted down the thread starts no
\* sweep after the one it is in, ends, and stays ended; and the join of the
\* destructor returns.
C32_SweepStopsOnShutdown ==
    /\ [][/\ Stopped => ~(pc[SweepT] = "sleep" /\ pc'[SweepT] = "scan")
          /\ pc[SweepT] = "exited" => pc'[SweepT] = "exited"
          /\ pc'[SweepT] = "exited" => Stopped']_vars
    /\ ([]<>(pc[SweepT] = "scan")) \/ <>Stopped
    /\ (pc[DtorT] = "join") ~> (pc[SweepT] = "exited" /\ pc[DtorT] \in {"shutdown", "done"})

\* the latch was counted down during a sweep that had cancels to do, and the
\* join has returned
C32_Witness ==
    /\ pc[DtorT] = "shutdown"
    /\ pc[SweepT] = "exited"
    /\ \E o \in Objs : ex[o].cancelled /\ ex[o].reason = "TIMEOUT"

\* ---------------------------------------------------------------------
\* overlapping cancel calls: the timeout sweep against the cancel RPCs
\* ---------------------------------------------------------------------

\* one instance with an execution timeout of a second, submitted once, the
\* clock running, the cancel thread sweeping, and the coordinator's cancel
\* and cancel_query
ParamsOverlap == {p \in ParamsSweep : p.inst = 1 /\ p.has_opts /\ p.timeout = 1}

SubmitOverlap(r) == r = 1 /\ SubmitFrom(r, ParamsOverlap)

NextOverlap ==
    \/ \E r \in Reqs : SubmitOverlap(r)
    \/ LegacySteps
    \/ RpcCancel
    \/ \E q \in Queries : CancelQuery(q)
    \/ CancelQueryReturn
    \/ \E t \in Threads : CancelLookup(t)
    \/ \E t \in Threads : CancelLookupPipeline(t)
    \/ SweepScan
    \/ SweepWake
    \/ Tick

SpecOverlap == Init /\ [][NextOverlap]_vars

\* C33: when several cancel calls for one instance overlap (the timeout sweep
\* and an explicit cancel or cancel_query), the body of
\* FragmentExecState::cancel, that is the executor's cancel and the cancel of
\* the stream-load pipe, runs exactly once in total for the instance.
C33_CancelOnce == \A o \in Objs : ex[o].exec_cancels <= 1

\* C34: every path that cancels an instance's executor (cancel, cancel_query,
\* the timeout sweep, the timed-out wait for the start trigger, a failed open
\* and the forced cancel after a failed status report) also sets the
\* instance's cancelled flag: an instance whose executor was cancelled reads
\* as cancelled.
C34_CancelSetsFlag == \A o \in Objs : ex[o].exec_cancels > 0 => ex[o].cancelled

\* ---------------------------------------------------------------------
\* the timeout sweep and the pipeline map
\* ---------------------------------------------------------------------

\* one instance id requested through any of the three entries, with or
\* without an execution timeout, the clock running and the cancel thread
\* sweeping; no cancel RPC
ParamsPipeSweep == {p \in Params : /\ p.inst = 1 /\ p.has_opts /\ ~p.need_wait /\ ~p.simplified
                                   /\ p.fault = "none"}

SubmitPipeSweep(r) == SubmitFrom(r, ParamsPipeSweep)

NextPipeSweep ==
    \/ \E r \in Reqs : SubmitPipeSweep(r)
    \/ SubmitSteps
    \/ \E t \in Threads : CancelLookup(t)
    \/ \E t \in Threads : CancelLookupPipeline(t)
    \/ SweepScan
    \/ SweepWake
    \/ Tick

SpecPipeSweep == Init /\ [][NextPipeSweep]_vars

\* C35: the sweep takes its TIMEOUT candidates from the legacy live-fragment
\* map only, and an instance registered in the pipeline map is never
\* cancelled by the sweep: no pipeline context gets the reason TIMEOUT.
C35_SweepSparesPipeline ==
    /\ [][SweepPass => \A i \in SweepSelected : fragment_map[i] # 0]_vars
    /\ [](\A o \in Objs : ex[o].kind = "pipeline" => ex[o].reason # "TIMEOUT")

\* the ids of a fragment_ids list
IdsOf(fragment_ids) == {fragment_ids[k] : k \in 1..Len(fragment_ids)}

\* submit call r has returned an error
SubmitFailed(r) == pc[ReqT(r)] = "done" /\ req[r].ret \notin {"NONE", "OK"}

\* C36: a submit call that fails (the query context is not resolved, prepare
\* fails, the pool rejects the task) leaves the registry as it was before
\* the call: its exec state is in no live map, the query context it created
\* is not left in the registry, and its instance id is not left in the
\* fragment-id list of its context.
C36_FailedSubmitLeavesNoTrace ==
    \A r \in Reqs :
       SubmitFailed(r) =>
          /\ \A i \in Insts : fragment_map[i] # r /\ pipeline_map[i] # r
          /\ \A q \in Queries : fragments_ctx_map[q] # r
          /\ req[r].ctx # 0 => req[r].inst \notin IdsOf(ctx[req[r].ctx].fragment_ids)

\* ---------------------------------------------------------------------
\* FragmentMgr::exec_plan_fragment(const TPipelineFragmentParams&) with
\* several local instances
\* ---------------------------------------------------------------------
\* One call for query 1. local_params is the list of the instance ids of the
\* request; instance fail_at (0: none) fails in prepare or in submit, as
\* fail_kind says. context[k] is the PipelineFragmentContext built for
\* local_params[k]: "none", "closed", "prepared", "registered", "running"
\* or "finished"; it is registered in _pipeline_map under its index k.

LocalFaults == {"prepare", "submit"}

LocalParams == UNION {[1..n -> Insts] : n \in 1..MaxLocal}

\* a slip in the loop: a failed instance is passed over
ReturnsErrorNever(st) == FALSE

\* if (!prepare_st.ok()) return prepare_st; RETURN_IF_ERROR(context->submit())
ReturnsError(st) == st # "OK"

\* the status of context->prepare(params, i)
PrepareStatus(i) ==
    IF pfp.fail_at = i /\ pfp.fail_kind = "prepare" THEN "ERR_PREPARE" ELSE "OK"

\* the status of context->submit()
SubmitStatus(i) ==
    IF pfp.fail_at = i /\ pfp.fail_kind = "submit" THEN "ERR_SUBMIT" ELSE "OK"

\* the loop goes on with instance i + 1, or the call returns OK
PfpContinue(p) ==
    IF p.i < Len(p.local_params) THEN [p EXCEPT !.i = @ + 1, !.pc = "pcheck"]
    ELSE [p EXCEPT !.pc = "done", !.ret = "OK"]

InitLocalParams ==
    /\ InitFragmentMgr
    /\ pidx = NoPidx
    /\ pq = NoPq
    /\ scan = NoScan
    /\ csv = NoCsv
    /\ anp = NoAnp
    /\ \E lps \in LocalParams, at \in 0..MaxLocal, kind \in LocalFaults, cf \in BOOLEAN :
          /\ at <= Len(lps)
          /\ pfp = [pc |-> "getctx", local_params |-> lps, fail_at |-> at, fail_kind |-> kind,
                    ctx_fault |-> cf, i |-> 1, ret |-> "NONE", fctx |-> 0,
                    context |-> [k \in 1..Len(lps) |-> "none"]]

\* RETURN_IF_ERROR(_get_query_ctx(params, params.query_id, true, fragments_ctx))
PfpGetQueryCtx ==
    /\ pfp.pc = "getctx"
    /\ IF pfp.ctx_fault
       THEN /\ pfp' = [pfp EXCEPT !.pc = "done", !.ret = "ERR_DESC_TBL"]
            /\ UNCHANGED <<ctx, fragments_ctx_map>>
       ELSE /\ ctx' = [ctx EXCEPT ![1] = NewQueryFragmentsCtx(Len(pfp.local_params), 1, 0, now)]
            /\ fragments_ctx_map' = [fragments_ctx_map EXCEPT ![1] = 1]
            /\ pfp' = [pfp EXCEPT !.pc = "pcheck", !.fctx = 1]
    /\ UNCHANGED <<now, fragment_map, pipeline_map, ex, req, pc, frame, rpc_left, api, rpt>>
    /\ UNCHANGED <<pidx, pq, scan, csv, anp>>

\* the duplicate check of local instance i, under _lock: a duplicate is
\* passed over
PfpCheckDuplicate ==
    /\ pfp.pc = "pcheck"
    /\ pfp' = IF pipeline_map[pfp.local_params[pfp.i]] # 0 THEN PfpContinue(pfp)
              ELSE [pfp EXCEPT !.pc = "pprepare"]
    /\ UNCHANGED fmVars
    /\ UNCHANGED <<pidx, pq, scan, csv, anp>>

\* fragment_ids.push_back, set_ready_to_execute_only, the context is built
\* and prepared; on a failure close_if_prepare_failed and return
PfpPrepare ==
    /\ pfp.pc = "pprepare"
    /\ ctx' = [ctx EXCEPT ![pfp.fctx].fragment_ids = Append(@, pfp.local_params[pfp.i]),
                          ![pfp.fctx].ready = TRUE]
    /\ pfp' = IF ReturnsError(PrepareStatus(pfp.i))
              THEN [pfp EXCEPT !.context[pfp.i] = "closed", !.pc = "done",
                               !.ret = PrepareStatus(pfp.i)]
              ELSE [pfp EXCEPT !.context[pfp.i] = "prepared", !.pc = "pinsert"]
    /\ UNCHANGED <<now, fragment_map, pipeline_map, fragments_ctx_map, ex, req, pc, frame,
                   rpc_left, api, rpt>>
    /\ UNCHANGED <<pidx, pq, scan, csv, anp>>

\* _pipeline_map.insert under _lock
PfpInsert ==
    /\ pfp.pc = "pinsert"
    /\ pipeline_map' = MapInsert(pipeline_map, pfp.local_params[pfp.i], pfp.i)
    /\ pfp' = [pfp EXCEPT !.context[pfp.i] = "registered", !.pc = "psubmit"]
    /\ UNCHANGED <<now, fragment_map, fragments_ctx_map, ctx, ex, req, pc, frame, rpc_left,
                   api, rpt>>
    /\ UNCHANGED <<pidx, pq, scan, csv, anp>>

\* RETURN_IF_ERROR(context->submit()): the context runs from here on
PfpSubmit ==
    /\ pfp.pc = "psubmit"
    /\ pfp' = IF ReturnsError(SubmitStatus(pfp.i))
              THEN [pfp EXCEPT !.pc = "done", !.ret = SubmitStatus(pfp.i)]
              ELSE IF SubmitStatus(pfp.i) = "OK"
                   THEN PfpContinue([pfp EXCEPT !.context[pfp.i] = "running"])
                   ELSE PfpContinue(pfp)
    /\ UNCHANGED fmVars
    /\ UNCHANGED <<pidx, pq, scan, csv, anp>>

\* FragmentMgr::remove_pipeline_context for the running context k
PfpRemovePipelineContext(k) ==
    /\ pfp.pc # "off"
    /\ k \in 1..Len(pfp.local_params)
    /\ pfp.context[k] = "running"
    /\ ctx' = [ctx EXCEPT ![pfp.fctx].fragment_num = CountdownNum(pfp.fctx)]
    /\ pipeline_map' = MapErase(pipeline_map, pfp.local_params[k])
    /\ fragments_ctx_map' = IF CountdownAllDone(pfp.fctx)
                            THEN MapErase(fragments_ctx_map, ctx[pfp.fctx].query_id)
                            ELSE fragments_ctx_map
    /\ pfp' = [pfp EXCEPT !.context[k] = "finished"]
    /\ UNCHANGED <<now, fragment_map, ex, req, pc, frame, rpc_left, api, rpt>>
    /\ UNCHANGED <<pidx, pq, scan, csv, anp>>

NextLocalParams ==
    \/ PfpGetQueryCtx
    \/ PfpCheckDuplicate
    \/ PfpPrepare
    \/ PfpInsert
    \/ PfpSubmit
    \/ \E k \in 1..MaxLocal : PfpRemovePipelineContext(k)

SpecLocalParams == InitLocalParams /\ [][NextLocalParams]_vars

\* the call has returned the failure of local instance i
PfpFailedAt(i) ==
    /\ pfp.pc = "done"
    /\ pfp.i = i
    /\ pfp.ret \in {"ERR_PREPARE", "ERR_SUBMIT"}

\* C37: when prepare or submit fails for local instance i, the call returns
\* that error; the instances before i that are registered stay in the
\* pipeline map and keep running (an entry leaves the map only when its own
\* context finishes); the instances after i are never registered or
\* executed.
C37_LocalInstanceFailure ==
    /\ [][/\ (pfp.pc = "pprepare" /\ pfp'.pc # pfp.pc /\ pfp.fail_at = pfp.i /\ pfp.fail_kind = "prepare")
               => (pfp'.pc = "done" /\ pfp'.ret = "ERR_PREPARE" /\ pfp'.i = pfp.i)
          /\ (pfp.pc = "psubmit" /\ pfp'.pc # pfp.pc /\ pfp.fail_at = pfp.i /\ pfp.fail_kind = "submit")
               => (pfp'.pc = "done" /\ pfp'.ret = "ERR_SUBMIT" /\ pfp'.i = pfp.i)
          /\ pfp.pc = "done" => (pfp'.pc = "done" /\ pfp'.ret = pfp.ret /\ pfp'.i = pfp.i)
          /\ \A id \in Insts :
                (pipeline_map[id] # 0 /\ pipeline_map'[id] # pipeline_map[id])
                   => /\ pfp.context[pipeline_map[id]] = "running"
                      /\ pfp'.context[pipeline_map[id]] = "finished"]_vars
    /\ [](\A i \in 1..MaxLocal :
            PfpFailedAt(i) =>
               /\ \A k \in 1..Len(pfp.local_params) :
                     k > i => /\ pfp.context[k] = "none"
                              /\ \A id \in Insts : pipeline_map[id] # k
               /\ \A k \in 1..(i - 1) :
                     pfp.context[k] \in {"none", "running", "finished"}
                     /\ (pfp.context[k] = "running" => pipeline_map[pfp.local_params[k]] = k))

\* the second of three local instances has failed in submit: the first is
\* registered and running, the third was never built
C37_Witness ==
    /\ PfpFailedAt(2)
    /\ pfp.ret = "ERR_SUBMIT"
    /\ Len(pfp.local_params) = 3
    /\ pfp.context[1] = "running"
    /\ pipeline_map[pfp.local_params[1]] = 1
    /\ pfp.context[3] = "none"

\* ---------------------------------------------------------------------
\* a parquet file divided into scan ranges, one ParquetReader per range
\* ---------------------------------------------------------------------
\* The row groups lie one after the other from offset 0 and have 1 to
\* MaxGroupBytes bytes; cuts are the offsets where one range ends and the
\* next begins, from 0 to the end of the last group. Range r is the bytes
\* [cuts[r], cuts[r + 1]). selected[r] is the queue _init_row_groups builds
\* for range r.

RECURSIVE GroupsFrom(_, _)
GroupsFrom(sizes, offset) ==
    IF sizes = <<>> THEN <<>>
    ELSE <<[num_rows |-> 1, filter |-> "keep", start_offset |-> offset,
            total_compressed_size |-> Head(sizes)]>>
         \o GroupsFrom(Tail(sizes), offset + Head(sizes))

DividedLayouts == {GroupsFrom(sizes, 0) : sizes \in UNION {[1..k -> 1..MaxGroupBytes] : k \in 1..MaxGroups}}

FileEnd(groups) == groups[Len(groups)].start_offset + groups[Len(groups)].total_compressed_size

\* the divisions of [0, end) into contiguous ranges
Divisions(end) ==
    {<<0>> \o SortedSeq(c) \o <<end>> : c \in {c \in SUBSET (1..(end - 1)) : Cardinality(c) <= MaxCuts}}

InitDividedFile ==
    /\ InitFragmentMgr
    /\ pidx = NoPidx
    /\ scan = NoScan
    /\ csv = NoCsv
    /\ anp = NoAnp
    /\ pfp = NoPfp
    /\ \E g \in DividedLayouts : \E cuts \in Divisions(FileEnd(g)) :
          pq = [pc |-> "divided", row_groups |-> g, cuts |-> cuts, r |-> 1,
                range_start_offset |-> cuts[1], range_size |-> cuts[2] - cuts[1],
                is_filter_groups |-> TRUE, read_row_groups |-> <<>>, status |-> "NONE",
                selected |-> <<>>]

\* _init_row_groups(true) of the reader of range r; the reader of the next
\* range follows
InitRowGroupsOfRange ==
    /\ pq.pc = "divided"
    /\ LET res == IF pq.range_size < 0 THEN [status |-> "EndOfFile", queue |-> <<>>]
                  ELSE InitRowGroupsLoop(1, 0, <<>>)
           last == pq.r + 1 = Len(pq.cuts)
       IN pq' = [pq EXCEPT !.selected = Append(@, res.queue),
                           !.status = res.status,
                           !.read_row_groups = res.queue,
                           !.r = IF last THEN @ ELSE @ + 1,
                           !.range_start_offset = IF last THEN @ ELSE pq.cuts[pq.r + 1],
                           !.range_size = IF last THEN @ ELSE pq.cuts[pq.r + 2] - pq.cuts[pq.r + 1],
                           !.pc = IF last THEN "done" ELSE "divided"]
    /\ UNCHANGED <<fmVars, pidx, scan, csv, anp, pfp>>

NextDividedFile == InitRowGroupsOfRange

SpecDividedFile == InitDividedFile /\ [][NextDividedFile]_vars

\* the ranges whose queue holds row group i (by position in the file)
RangesSelecting(i) ==
    {r \in DOMAIN pq.selected :
        \E j \in DOMAIN pq.selected[r] : pq.selected[r][j].row_group_id = i - 1}

\* the byte midpoint of row group i
MidOf(i) == pq.row_groups[i].start_offset + pq.row_groups[i].total_compressed_size \div 2

\* C38: when the span of the file is divided into contiguous ranges that do
\* not overlap and cover it, every row group is selected by exactly one
\* range, the one whose [start, start + size) holds the group's byte midpoint.
C38_OneRangePerGroup ==
    pq.pc = "done" =>
       \A i \in DOMAIN pq.row_groups :
          /\ Cardinality(RangesSelecting(i)) = 1
          /\ \A r \in RangesSelecting(i) : pq.cuts[r] <= MidOf(i) /\ MidOf(i) < pq.cuts[r + 1]

\* a file of three groups divided in three ranges: a group lies across a cut
\* and the midpoint of a group lies on a cut
C38_Witness ==
    /\ pq.pc = "done"
    /\ Len(pq.row_groups) = 3
    /\ Len(pq.selected) = 3
    /\ \E i \in DOMAIN pq.row_groups, r \in 2..(Len(pq.cuts) - 1) :
          /\ pq.row_groups[i].start_offset < pq.cuts[r]
          /\ pq.cuts[r] < pq.row_groups[i].start_offset + pq.row_groups[i].total_compressed_size
    /\ \E i \in DOMAIN pq.row_groups, r \in 2..(Len(pq.cuts) - 1) : MidOf(i) = pq.cuts[r]

\* ---------------------------------------------------------------------
\* ParquetReader::_get_position_delete_ctx : position deletes per row group
\* ---------------------------------------------------------------------
\* delete_rows is the sorted list of the deleted row positions of the file;
\* has_delete_rows says that the reader was given one (_delete_rows is not
\* nullptr). Indices count from 0 as in the code, so entry p of the code is
\* delete_rows[p + 1] here.

\* a slip: the first entry greater than value (std::upper_bound)
UpperBound(rows, from, value) ==
    Min({p \in from..Len(rows) : p = Len(rows) \/ rows[p + 1] > value})

\* std::lower_bound(delete_rows + from, delete_rows_end, value) - delete_rows
LowerBound(rows, from, value) ==
    Min({p \in from..Len(rows) : p = Len(rows) \/ rows[p + 1] >= value})

\* files whose row groups have 1..MaxGroupRows rows and are kept or filtered
DeleteLayouts ==
    UNION {{[i \in 1..k |-> [num_rows |-> f[i][1], filter |-> f[i][2],
                             start_offset |-> (i - 1) * GroupBytes,
                             total_compressed_size |-> GroupBytes]] :
               f \in [1..k -> (1..MaxGroupRows) \X {"keep", "filter"}]} : k \in 1..MaxGroups}

\* sorted lists of 1..MaxDeletes row positions below n
DeleteLists(n) ==
    {d \in UNION {[1..k -> 0..(n - 1)] : k \in 1..MaxDeletes} :
        \A p \in 1..(Len(d) - 1) : d[p] <= d[p + 1]}

InitDeletes ==
    /\ InitFragmentMgr
    /\ pidx = NoPidx
    /\ scan = NoScan
    /\ csv = NoCsv
    /\ anp = NoAnp
    /\ pfp = NoPfp
    /\ \E g \in DeleteLayouts :
       \E d \in DeleteLists(SumRows(g, Len(g))) \cup {<<>>} :
          pq = [pc |-> "init", row_groups |-> g, range_start_offset |-> 0,
                range_size |-> Len(g) * GroupBytes, is_filter_groups |-> TRUE,
                read_row_groups |-> <<>>, status |-> "NONE",
                has_delete_rows |-> d # <<>>, delete_rows |-> d, delete_rows_index |-> 0,
                contexts |-> <<>>]

\* _get_position_delete_ctx(row_group, row_group_index): the context, and
\* _delete_rows_index after the call
GetPositionDeleteCtx(row_group, row_group_index) ==
    IF ~pq.has_delete_rows
    THEN [ctx |-> [has_delete_rows |-> FALSE, num_rows |-> row_group.num_rows,
                   first_row |-> row_group_index.first_row, start_index |-> 0,
                   end_index |-> 0],
          delete_rows_index |-> pq.delete_rows_index]
    ELSE LET start_index == LowerBound(pq.delete_rows, pq.delete_rows_index,
                                       row_group_index.first_row)
             end_index == LowerBound(pq.delete_rows, start_index, row_group_index.last_row)
         IN [ctx |-> [has_delete_rows |-> TRUE, num_rows |-> row_group.num_rows,
                      first_row |-> row_group_index.first_row, start_index |-> start_index,
                      end_index |-> end_index],
             delete_rows_index |-> end_index]

\* _next_row_group_reader: the front of the queue is taken and the reader of
\* that row group gets its position-delete context
NextRowGroupReader ==
    /\ pq.pc = "inited"
    /\ pq.read_row_groups # <<>>
    /\ LET row_group_index == Head(pq.read_row_groups)
           row_group == pq.row_groups[row_group_index.row_group_id + 1]
           res == GetPositionDeleteCtx(row_group, row_group_index)
       IN pq' = [pq EXCEPT !.read_row_groups = Tail(@),
                           !.contexts = Append(@, [row_group_index |-> row_group_index,
                                                   position_delete_ctx |-> res.ctx]),
                           !.delete_rows_index = res.delete_rows_index]
    /\ UNCHANGED <<fmVars, pidx, scan, csv, anp, pfp>>

NextDeletes == InitRowGroups \/ NextRowGroupReader

SpecDeletes == InitDeletes /\ [][NextDeletes]_vars

\* the indices (from 0) of the entries a context covers
Covered(c) == c.position_delete_ctx.start_index .. (c.position_delete_ctx.end_index - 1)

\* C39: for row groups taken from the queue in order and a sorted
\* position-delete list, the context of a group covers exactly the entries d
\* with first_row <= d < last_row, as the index range [start_index,
\* end_index); _delete_rows_index never decreases, and no entry is covered by
\* the contexts of two groups.
C39_PositionDeleteCtx ==
    /\ [](pq.has_delete_rows =>
            /\ \A j \in DOMAIN pq.contexts :
                  Covered(pq.contexts[j]) =
                     {p \in 0..(Len(pq.delete_rows) - 1) :
                         /\ pq.contexts[j].row_group_index.first_row <= pq.delete_rows[p + 1]
                         /\ pq.delete_rows[p + 1] < pq.contexts[j].row_group_index.last_row}
            /\ \A j \in DOMAIN pq.contexts, k \in DOMAIN pq.contexts :
                  j # k => Covered(pq.contexts[j]) \cap Covered(pq.contexts[k]) = {})
    /\ [][pq'.delete_rows_index >= pq.delete_rows_index]_vars

\* two groups were read with a filtered group between them; each has a
\* deleted row, one deleted row lies in the filtered group, and the cursor
\* stands behind all three entries
C39_Witness ==
    /\ pq.has_delete_rows
    /\ Len(pq.contexts) = 2
    /\ pq.contexts[2].row_group_index.row_group_id = 2
    /\ pq.contexts[1].row_group_index.row_group_id = 0
    /\ Cardinality(Covered(pq.contexts[1])) = 1
    /\ Cardinality(Covered(pq.contexts[2])) = 1
    /\ pq.delete_rows_index = 3

\* ---------------------------------------------------------------------
\* AcceptNullPredicate::evaluate_and (olap/accept_null_predicate.h)
\* ---------------------------------------------------------------------
\* A column of n rows: null_map[r + 1] says that row r is NULL, pred[r + 1]
\* what the nested predicate answers for the value of row r. sel is the
\* selection vector, row indices from 0 in rising order; flags has a flag
\* per row. Row r of the code is entry r + 1 of the sequences.

\* the selection vectors over n rows
SelectionVectors(n) == {SortedSeq(rows) : rows \in SUBSET (0..(n - 1))}

\* the nested predicate's evaluate_and: the flag of a selected row stays true
\* only if the row is not NULL and satisfies the predicate
NestedEvaluateAnd(null_map, pred, sel, flags) ==
    [r \in 1..Len(flags) |->
        IF \E i \in 1..Len(sel) : sel[i] = r - 1
        THEN flags[r] /\ ~null_map[r] /\ pred[r]
        ELSE flags[r]]

\* original_flags[idx]: the copy holds size flags, a read behind them gives
\* whatever the heap holds there
OriginalFlag(original_flags, size, idx, heap) ==
    IF idx < size THEN original_flags[idx + 1] ELSE heap[idx + 1]

\* the loop that restores the flags of NULL rows, from position i (from 0) on
RECURSIVE RestoreLoop(_, _, _, _, _, _)
RestoreLoop(i, sel, original_flags, heap, null_map, flags) ==
    IF i >= Len(sel) THEN flags
    ELSE LET idx == sel[i + 1]
         IN IF OriginalFlag(original_flags, Len(sel), idx, heap) /\ ~flags[idx + 1]
               /\ null_map[idx + 1]
            THEN RestoreLoop(i + 1, sel, original_flags, heap, null_map,
                             [flags EXCEPT ![i + 1] = TRUE])
            ELSE RestoreLoop(i + 1, sel, original_flags, heap, null_map, flags)

InitAcceptNull ==
    /\ InitFragmentMgr
    /\ pidx = NoPidx
    /\ pq = NoPq
    /\ scan = NoScan
    /\ csv = NoCsv
    /\ pfp = NoPfp
    /\ \E n \in 1..MaxColumnRows :
       \E nm \in [1..n -> BOOLEAN], pr \in [1..n -> BOOLEAN], fl \in [1..n -> BOOLEAN],
          sel \in SelectionVectors(n) :
          anp = [pc |-> "call", null_map |-> nm, pred |-> pr, sel |-> sel, flags |-> fl,
                 original |-> fl, nested |-> fl]

\* evaluate_and(column, sel, size, flags)
EvaluateAnd ==
    /\ anp.pc = "call"
    /\ LET has_null == \E r \in DOMAIN anp.null_map : anp.null_map[r]
           nested == NestedEvaluateAnd(anp.null_map, anp.pred, anp.sel, anp.flags)
       IN \E heap \in [DOMAIN anp.flags -> BOOLEAN] :
             anp' = [anp EXCEPT !.pc = "done",
                                !.nested = nested,
                                !.flags = IF has_null
                                          THEN RestoreLoop(0, anp.sel, anp.flags, heap,
                                                           anp.null_map, nested)
                                          ELSE nested]
    /\ UNCHANGED <<fmVars, pidx, pq, scan, csv, pfp>>

NextAcceptNull == EvaluateAnd

SpecAcceptNull == InitAcceptNull /\ [][NextAcceptNull]_vars

\* C40: after evaluate_and over a selection vector, the flag of every
\* selected row that is NULL and whose flag was true before the call is true,
\* and the flag of every other selected row is what the nested predicate's
\* evaluate_and produced.
C40_NullRowsPass ==
    anp.pc = "done" =>
       \A i \in DOMAIN anp.sel :
          LET r == anp.sel[i] + 1
          IN IF anp.null_map[r] /\ anp.original[r] THEN anp.flags[r]
             ELSE anp.flags[r] = anp.nested[r]

====
